---- MODULE Spec2Model ----
(***************************************************************************)
(* A model of the exposure reconciliation (organize_exposures), sequence   *)
(* detection (get_sequence_exposure_numbers) and plate hole matching       *)
(* (match_planned_to_plugged) of almanac.                                  *)
(*                                                                         *)
(* Python dictionaries are functions with string domains; {**a, **b} is    *)
(* b @@ a.  None / falsy values are "" for strings and 0 for integers,     *)
(* which the code treats alike in `x or y`.                                *)
(***************************************************************************)
EXTENDS Integers, Sequences, FiniteSets, TLC

VARIABLES
    \* ---- reconciler (apogee.organize_exposures and its caller) ----
    observatory,    \* the observatory of the night being processed
    mjd,            \* the night being processed
    opsdb,          \* what the operations database holds for the night
    on_disk,        \* the `exposures` list handed to organize_exposures
    expected,       \* the `expected_exposures` dict object handed to it
    require_exposures_start_at_1,
    calls,          \* the calls made so far: arguments and return value
    \* ---- sequence detector (apogee.get_sequence_exposure_numbers) ----
    timeline,       \* the exposures table
    seq_args,       \* arguments of the call made, or NoCall
    seq_result,     \* the returned list of (first, last), or NoCall
    \* ---- plate matching (data_models.utils.match_planned_to_plugged) ----
    planned,        \* STRUCT1 rows of the plate hole file
    plugged,        \* PLUGMAPOBJ rows of the plug map file
    match_result,   \* NoCall, or [raised, rows]
    \* ---- targets (data_models.fps.FPSTarget) ----
    fps_target,     \* the validated fields of an FPSTarget
    fps_expected,   \* NoCall, or the value of expected_to_be_assigned_sdss_id
    \* ---- exposure model (data_models.exposure.Exposure) ----
    headers,        \* the header values an Exposure is built from
    exposure_model, \* NoCall, or [raised, fields of the Exposure]
    \* ---- persistence (io.update) ----
    h5file,         \* the group of one (observatory, mjd) in the output file
    io_log,         \* the calls of update made: arguments, raised, file after
    \* ---- batch driver (cli.main) ----
    batch,          \* the run: its keys in order, the keys whose processing
                    \* raises, and the --processes option (0 when not given)
    driver,         \* the loop: keys not yet taken from the iterable, futures
                    \* in flight, keys whose result was handled, and its state
    \* ---- target attachment (apogee.get_almanac_data with fibers) ----
    backend,        \* the database: whether it is available, and its
                    \* catalogid and 2MASS designation tables
    request,        \* the fibers and xmatch arguments
    almanac,        \* NoCall, or what get_almanac_data did and returned
    \* ---- raw files of a night (apogee.get_unique_exposure_paths) ----
    paths,          \* the list of file paths handed to the function
    unique_paths,   \* NoCall, or the list of (path, chips) it returned
    \* ---- the output file of a run (io.update on several keys) ----
    h5root,         \* the group of each (observatory, mjd) of the file
    io_tasks        \* the arguments of the update of each key of the run

vars == << observatory, mjd, opsdb, on_disk, expected,
           require_exposures_start_at_1, calls,
           timeline, seq_args, seq_result,
           planned, plugged, match_result,
           fps_target, fps_expected, headers, exposure_model,
           h5file, io_log, batch, driver, backend, request, almanac,
           paths, unique_paths, h5root, io_tasks >>

org_vars == << observatory, mjd, opsdb, on_disk, expected,
               require_exposures_start_at_1, calls >>
seq_vars == << timeline, seq_args, seq_result >>
match_vars == << planned, plugged, match_result >>
fps_vars == << fps_target, fps_expected >>
\* the variables of the components added after the first three
exp_vars == << headers, exposure_model >>
io_vars == << h5file, io_log >>
cli_vars == << batch, driver >>
fiber_vars == << backend, request, almanac >>
path_vars == << paths, unique_paths >>
store_vars == << h5root, io_tasks >>
ext_vars == << fps_target, fps_expected, headers, exposure_model,
               h5file, io_log, batch, driver, backend, request, almanac,
               paths, unique_paths, h5root, io_tasks >>

NoCall == [called |-> FALSE]

(***************************************************************************)
(* Bounds of the model.                                                    *)
(***************************************************************************)
\* on-disk exposures of a night are numbered prefix+1 .. prefix+MaxK
MaxK == 3
\* timeline rows of the sequence detector carry exposure numbers 1 .. MaxRows
MaxRows == 5
\* planned hole coordinates, in units of a quarter of the tolerance
MaxCoord == 4
\* catalog identifiers of targets are -1 .. MaxCatalogId
MaxCatalogId == 2
\* update is handed at most MaxWritten exposures
MaxWritten == 2
\* a run covers MaxNights nights at two observatories
MaxNights == 2
\* the --processes option is at most MaxProcesses
MaxProcesses == 2

(***************************************************************************)
(* Generic helpers: Python's sorted() (a stable sort) and dict merging.    *)
(***************************************************************************)
Range(s) == { s[i] : i \in DOMAIN s }

\* the empty dict
EmptyMap == [ x \in {} |-> 0 ]

\* insert record r after the last element whose key is <= r's key
RECURSIVE InsertBy(_, _, _)
InsertBy(s, r, k) ==
    IF s = << >> THEN << r >>
    ELSE IF s[Len(s)][k] <= r[k] THEN Append(s, r)
    ELSE Append(InsertBy(SubSeq(s, 1, Len(s) - 1), r, k), s[Len(s)])

RECURSIVE SortedByFrom(_, _, _, _)
SortedByFrom(acc, s, i, k) ==
    IF i > Len(s) THEN acc
    ELSE SortedByFrom(InsertBy(acc, s[i], k), s, i + 1, k)

\* sorted(s, key=lambda x: x[k]): ascending, stable
SortedBy(s, k) == SortedByFrom(<< >>, s, 1, k)

\* the set of sequences that list each element of S exactly once
Perms(S) ==
    { s \in [1 .. Cardinality(S) -> S] : Range(s) = S }

\* dict.pop(key, None): the mapping without the key
Pop(d, key) == [ x \in DOMAIN d \ {key} |-> d[x] ]

\* sorted(d.keys()) for integer keys
RECURSIVE SortedKeys(_)
SortedKeys(S) ==
    IF S = {} THEN << >>
    ELSE LET m == CHOOSE x \in S : \A y \in S : x <= y
         IN  << m >> \o SortedKeys(S \ {m})

(***************************************************************************)
(* Configuration and exposure numbering.                                   *)
(***************************************************************************)
Observatories == { "apo" }

\* config.sdssdb_exposure_min_mjd: the first night the operations database covers
sdssdb_exposure_min_mjd == [ apo |-> 59558, lco |-> 59558 ]

\* the nights of the model: one before the database cutoff, whose exposure
\* numbers have seven digits, and the first night the database covers
MJDs == { 56000, 59558 }

mjd_to_exposure_prefix(night) == (night - 55562) * 10000

\* str(n)[:4] for n >= 0, as an integer
RECURSIVE FirstFourDigits(_)
FirstFourDigits(n) == IF n < 10000 THEN n ELSE FirstFourDigits(n \div 10)

\* int(str(n)[:4] + "0000")
ForcedStart(n) == FirstFourDigits(n) * 10000

(***************************************************************************)
(* Exposure records.  The fields kept are those the reconciler, the        *)
(* sequence detector and the messages read, plus enough of the others to   *)
(* tell the three kinds of record apart by their keys.                     *)
(***************************************************************************)
\* a template that takes the placeholder's file for found
missing_row_template_PathExists ==
    [ prefix |-> "apR", chip |-> "",
      readout_chip_a |-> FALSE, readout_chip_b |-> FALSE, readout_chip_c |-> FALSE,
      fieldid |-> "-1", designid |-> "-1", configid |-> "-1",
      exptype |-> "MISSING", nread |-> "0", imagetyp |-> "Missing",
      plateid |-> "", obscmt |-> "", dithpix |-> "",
      path_exists |-> TRUE ]

missing_row_template ==
    [ prefix |-> "apR", chip |-> "",
      readout_chip_a |-> FALSE, readout_chip_b |-> FALSE, readout_chip_c |-> FALSE,
      fieldid |-> "-1", designid |-> "-1", configid |-> "-1",
      exptype |-> "MISSING", nread |-> "0", imagetyp |-> "Missing",
      plateid |-> "", obscmt |-> "", dithpix |-> "",
      path_exists |-> FALSE ]

\* the record _get_meta builds for a file found on disk
OnDiskRecord(obs, night, n) ==
    [ observatory |-> obs, mjd |-> night, exposure |-> n,
      prefix |-> "apR", chip |-> "a", path_exists |-> TRUE,
      readout_chip_a |-> TRUE, readout_chip_b |-> TRUE, readout_chip_c |-> TRUE,
      fieldid |-> "100", designid |-> "200", configid |-> "300",
      exptype |-> "OBJECT", nread |-> "47", imagetyp |-> "Object",
      plateid |-> "", obscmt |-> "", dithpix |-> "12.5" ]
    @@ ("date-obs" :> "t")

\* the record get_expected_exposure_metadata builds for a database row:
\* {**dict(observatory, mjd), **row}, the row holding exposure, configid,
\* exptype, imagetyp (both the flavor label), date-obs and obscmt
ExpectedRecord(obs, night, n) ==
    [ observatory |-> obs, mjd |-> night, exposure |-> n,
      configid |-> "300", exptype |-> "Object", imagetyp |-> "Object",
      obscmt |-> "" ]
    @@ ("date-obs" :> "t")

\* the value of `cutoff` before the loop over the on-disk exposures assigns it
Unbound == -1

(***************************************************************************)
(* organize_exposures.                                                     *)
(***************************************************************************)
\* the three contexts of a message
ContextExists == "Exposure record exists in operations database."
ContextBeforeCutoff == "No exposure record in operations database because it is before MJD cutoff."
ContextShould == "No exposure record in operations database, but it should!"
ContextNameError == "NameError: cutoff"

\* a placeholder builder that takes the cutoff night itself as not covered
prepare_missing_exposure_CutoffInclusive(n, obs, night, exp, cutoff) ==
    LET is_expected == n \in DOMAIN exp
        missing ==
            IF is_expected
            THEN exp[n] @@ missing_row_template
            ELSE [ exposure |-> n, observatory |-> obs, mjd |-> night ]
                 @@ missing_row_template
        obs2 == IF obs # "" THEN obs ELSE missing["observatory"]
        mjd2 == IF night # 0 THEN night ELSE missing["mjd"]
        context ==
            IF is_expected THEN ContextExists
            ELSE IF cutoff = Unbound THEN ContextNameError
            ELSE IF mjd2 <= cutoff THEN ContextBeforeCutoff
            ELSE ContextShould
    IN  [ missing  |-> missing,
          message  |-> [ exposure |-> n, observatory |-> obs2, mjd |-> mjd2,
                         exptype |-> missing["exptype"],
                         configid |-> missing["configid"],
                         context |-> context ],
          expected |-> IF is_expected THEN Pop(exp, n) ELSE exp,
          raised   |-> context = ContextNameError ]

prepare_missing_exposure(n, obs, night, exp, cutoff) ==
    LET is_expected == n \in DOMAIN exp
        missing ==
            IF is_expected
            THEN exp[n] @@ missing_row_template
            ELSE [ exposure |-> n, observatory |-> obs, mjd |-> night ]
                 @@ missing_row_template
        obs2 == IF obs # "" THEN obs ELSE missing["observatory"]
        mjd2 == IF night # 0 THEN night ELSE missing["mjd"]
        context ==
            IF is_expected THEN ContextExists
            ELSE IF cutoff = Unbound THEN ContextNameError
            ELSE IF mjd2 < cutoff THEN ContextBeforeCutoff
            ELSE ContextShould
    IN  [ missing  |-> missing,
          message  |-> [ exposure |-> n, observatory |-> obs2, mjd |-> mjd2,
                         exptype |-> missing["exptype"],
                         configid |-> missing["configid"],
                         context |-> context ],
          expected |-> IF is_expected THEN Pop(exp, n) ELSE exp,
          raised   |-> context = ContextNameError ]

\* a reconciler that appends the placeholder of n without its message
AppendMissing_Silent(st, n, obs, night) ==
    IF st.raised THEN st
    ELSE LET p == prepare_missing_exposure(n, obs, night, st.expected, st.cutoff)
         IN  IF p.raised THEN [ st EXCEPT !.raised = TRUE ]
             ELSE [ st EXCEPT !.corrected = Append(@, p.missing),
                              !.expected  = p.expected ]

\* append the placeholder of n to the lists (nothing is appended once an
\* exception is on its way out)
AppendMissing(st, n, obs, night) ==
    IF st.raised THEN st
    ELSE LET p == prepare_missing_exposure(n, obs, night, st.expected, st.cutoff)
         IN  IF p.raised THEN [ st EXCEPT !.raised = TRUE ]
             ELSE [ st EXCEPT !.corrected = Append(@, p.missing),
                              !.messages  = Append(@, p.message),
                              !.expected  = p.expected ]

\* for n in range(n, stop): placeholder
RECURSIVE FillRange(_, _, _, _, _)
FillRange(st, n, stop, obs, night) ==
    IF n >= stop THEN st
    ELSE FillRange(AppendMissing(st, n, obs, night), n + 1, stop, obs, night)

\* an iteration that leaves the key of the on-disk exposure in the mapping
OrganizeStep_KeepExpected(st, i, exposure, require_start) ==
    LET last == IF i = 1
                THEN IF require_start THEN ForcedStart(exposure["exposure"])
                     ELSE exposure["exposure"]
                ELSE st.last_exposure_id
        cutoff == sdssdb_exposure_min_mjd[exposure["observatory"]]
        filled == FillRange([ st EXCEPT !.cutoff = cutoff ], last + 1,
                            exposure["exposure"], exposure["observatory"],
                            exposure["mjd"])
    IN  IF filled.raised THEN filled
        ELSE [ filled EXCEPT
                 !.corrected = Append(@, exposure @@ missing_row_template),
                 !.last_exposure_id = exposure["exposure"] ]

\* one iteration of the loop over the sorted on-disk exposures (i from 1)
OrganizeStep(st, i, exposure, require_start) ==
    LET last == IF i = 1
                THEN IF require_start THEN ForcedStart(exposure["exposure"])
                     ELSE exposure["exposure"]
                ELSE st.last_exposure_id
        cutoff == sdssdb_exposure_min_mjd[exposure["observatory"]]
        filled == FillRange([ st EXCEPT !.cutoff = cutoff ], last + 1,
                            exposure["exposure"], exposure["observatory"],
                            exposure["mjd"])
    IN  IF filled.raised THEN filled
        ELSE [ filled EXCEPT
                 !.expected = Pop(@, exposure["exposure"]),
                 !.corrected = Append(@, exposure @@ missing_row_template),
                 !.last_exposure_id = exposure["exposure"] ]

RECURSIVE OrganizeLoop(_, _, _, _)
OrganizeLoop(st, srt, i, require_start) ==
    IF i > Len(srt) \/ st.raised THEN st
    ELSE OrganizeLoop(OrganizeStep(st, i, srt[i], require_start), srt, i + 1,
                      require_start)

\* the loop over the keys left in expected_exposures
RECURSIVE OrganizeRest(_, _, _)
OrganizeRest(st, keys, i) ==
    IF i > Len(keys) THEN st
    ELSE OrganizeRest(AppendMissing(st, keys[i], "", 0), keys, i + 1)

\* a reconciler that walks the list in the order given
SortExposures_Unsorted(exposures) == exposures

\* sorted(exposures, key=lambda x: x["exposure"])
SortExposures(exposures) == SortedBy(exposures, "exposure")

\* a reconciler that returns the records in the order they were appended
SortCorrected_AsAppended(corrected) == corrected

\* sorted(corrected, key=lambda x: x["exposure"])
SortCorrected(corrected) == SortedBy(corrected, "exposure")

\* the return value (corrected, messages), whether the call raised, and the
\* expected_exposures dict as the call leaves it
organize_exposures(exposures, expected_exposures, require_start) ==
    LET st0 == [ corrected |-> << >>, messages |-> << >>,
                 expected |-> expected_exposures,
                 last_exposure_id |-> 0, cutoff |-> Unbound, raised |-> FALSE ]
        st1 == OrganizeLoop(st0, SortExposures(exposures), 1, require_start)
        st2 == OrganizeRest(st1, SortedKeys(DOMAIN st1.expected), 1)
    IN  [ raised    |-> st2.raised,
          corrected |-> IF st2.raised THEN << >>
                        ELSE SortCorrected(st2.corrected),
          messages  |-> IF st2.raised THEN << >> ELSE st2.messages,
          expected  |-> st2.expected ]

(***************************************************************************)
(* get_sequence_exposure_numbers.  Column values are strings; numpy orders *)
(* them by code point, which for the values of the model is StringOrder.   *)
(***************************************************************************)
StringOrder ==
    << "", "-1", "100", "101", "12.5", "13.0", "15000", "15001", "200",
       "300", "301", "ArcLamp", "Missing", "Object" >>

Rank(v) == CHOOSE i \in DOMAIN StringOrder : StringOrder[i] = v

\* the key columns of the two callers
ObjectKeys == << "fieldid", "plateid", "configid", "imagetyp" >>
ArcLampKeys == << "dithpix" >>

\* the row's values of the key columns
KeyOf(row, keys) == [ i \in DOMAIN keys |-> row[keys[i]] ]

\* lexicographic order of two key tuples of the same columns
RECURSIVE KeyLessFrom(_, _, _)
KeyLessFrom(a, b, i) ==
    IF i > Len(a) THEN FALSE
    ELSE IF Rank(a[i]) < Rank(b[i]) THEN TRUE
    ELSE IF Rank(a[i]) > Rank(b[i]) THEN FALSE
    ELSE KeyLessFrom(a, b, i + 1)

KeyLess(a, b) == KeyLessFrom(a, b, 1)

\* a filter that forgets require_path_exists
RECURSIVE FilterExposures_IgnorePath(_, _, _)
FilterExposures_IgnorePath(exposures, imagetyp, require_path_exists) ==
    IF exposures = << >> THEN << >>
    ELSE LET row == Head(exposures)
             rest == FilterExposures_IgnorePath(Tail(exposures), imagetyp,
                                                require_path_exists)
         IN  IF row["imagetyp"] = imagetyp THEN << row >> \o rest ELSE rest

\* exposures[mask]: the rows of the image type, and with require_path_exists
\* only those whose file exists, in table order
RECURSIVE FilterExposures(_, _, _)
FilterExposures(exposures, imagetyp, require_path_exists) ==
    IF exposures = << >> THEN << >>
    ELSE LET row == Head(exposures)
             rest == FilterExposures(Tail(exposures), imagetyp, require_path_exists)
         IN  IF /\ row["imagetyp"] = imagetyp
                /\ (require_path_exists => row["path_exists"])
             THEN << row >> \o rest
             ELSE rest

\* insert a row after the last row whose key is not greater
RECURSIVE InsertByKey(_, _, _)
InsertByKey(s, r, keys) ==
    IF s = << >> THEN << r >>
    ELSE IF ~ KeyLess(KeyOf(r, keys), KeyOf(s[Len(s)], keys)) THEN Append(s, r)
    ELSE Append(InsertByKey(SubSeq(s, 1, Len(s) - 1), r, keys), s[Len(s)])

RECURSIVE GroupByFrom(_, _, _, _)
GroupByFrom(acc, s, i, keys) ==
    IF i > Len(s) THEN acc
    ELSE GroupByFrom(InsertByKey(acc, s[i], keys), s, i + 1, keys)

\* a grouping that leaves the rows in table order
GroupBy_TableOrder(exposures_, keys) == exposures_

\* Table.group_by(keys): the rows in ascending order of their key, rows of
\* equal key in table order
GroupBy(exposures_, keys) == GroupByFrom(<< >>, exposures_, 1, keys)

\* groups.indices: where a group starts, and the end of the table (from 1)
GroupStarts(grouped, keys) ==
    { i \in DOMAIN grouped :
        i = 1 \/ KeyOf(grouped[i], keys) # KeyOf(grouped[i - 1], keys) }

GroupIndices(grouped, keys) ==
    SortedKeys(GroupStarts(grouped, keys) \cup { Len(grouped) + 1 })

\* a contiguity test that lets one missing number through
IsBreak_SkipOne(previous, current) == current - previous > 2

\* np.diff(...) > 1
IsBreak(previous, current) == current - previous > 1

\* np.hstack([si, si + where(diff > 1) + 1, ei]) for the group [si, ei)
SubIndices(grouped, si, ei) ==
    SortedKeys({ si, ei } \cup
               { j \in (si + 1) .. (ei - 1) :
                   IsBreak(grouped[j - 1]["exposure"], grouped[j]["exposure"]) })

\* (first, last) exposure number of the rows [sj, ej) for consecutive indices
PairsOf(grouped, indices) ==
    [ x \in 1 .. (Len(indices) - 1) |->
        << grouped[indices[x]]["exposure"],
           grouped[indices[x + 1] - 1]["exposure"] >> ]

\* a split at every numbering gap whatever the flag says
GroupPairs_AlwaysSplit(grouped, si, ei, require_contiguous) ==
    PairsOf(grouped, SubIndices(grouped, si, ei))

\* the pairs of one group
GroupPairs(grouped, si, ei, require_contiguous) ==
    IF require_contiguous
    THEN PairsOf(grouped, SubIndices(grouped, si, ei))
    ELSE << << grouped[si]["exposure"], grouped[ei - 1]["exposure"] >> >>

RECURSIVE CollectPairs(_, _, _, _)
CollectPairs(grouped, indices, g, require_contiguous) ==
    IF g >= Len(indices) THEN << >>
    ELSE GroupPairs(grouped, indices[g], indices[g + 1], require_contiguous)
         \o CollectPairs(grouped, indices, g + 1, require_contiguous)

\* lines 623-640: sort, group and split; grouping an empty table fails
SequencesOf(exposures_, keys, require_contiguous) ==
    IF Len(exposures_) = 0
    THEN [ called |-> TRUE, raised |-> TRUE, pairs |-> << >> ]
    ELSE LET grouped == GroupBy(SortedBy(exposures_, "exposure"), keys)
         IN  [ called |-> TRUE, raised |-> FALSE,
               pairs |-> CollectPairs(grouped, GroupIndices(grouped, keys), 1,
                                      require_contiguous) ]

\* a detector without the early return on an empty selection
get_sequence_exposure_numbers_NoEarlyReturn(exposures, imagetyp, keys, require_contiguous, require_path_exists) ==
    SequencesOf(FilterExposures(exposures, imagetyp, require_path_exists),
                keys, require_contiguous)

get_sequence_exposure_numbers(exposures, imagetyp, keys, require_contiguous, require_path_exists) ==
    LET exposures_ == FilterExposures(exposures, imagetyp, require_path_exists)
    IN  IF Len(exposures_) = 0
        THEN [ called |-> TRUE, raised |-> FALSE, pairs |-> << >> ]
        ELSE SequencesOf(exposures_, keys, require_contiguous)

\* the two callers' image type and key columns
SequenceKinds ==
    { [ imagetyp |-> "Object", keys |-> ObjectKeys ],
      [ imagetyp |-> "ArcLamp", keys |-> ArcLampKeys ] }

\* np.searchsorted(exposures["exposure"], n): the 0-based position of the
\* first row whose number is not below n, in a column in ascending order
searchsorted(table, n) ==
    Cardinality({ i \in DOMAIN table : table[i]["exposure"] < n })

\* np.sort of one column of the (n, 2) array of positions
SortColumn(positions, c) ==
    LET column == [ k \in DOMAIN positions |-> [ v |-> positions[k][c] ] ]
        sorted == SortedBy(column, "v")
    IN  [ k \in DOMAIN sorted |-> sorted[k].v ]

\* get_object_sequence_indices / get_arclamp_sequence_indices after the
\* call of the detector: the positions of the first and last exposure of
\* each pair, the end offset by one, each column then sorted by itself
sequence_indices(table, pairs) ==
    LET positions == [ k \in DOMAIN pairs |->
                         << searchsorted(table, pairs[k][1]),
                            searchsorted(table, pairs[k][2]) + 1 >> ]
        starts == SortColumn(positions, 1)
        ends == SortColumn(positions, 2)
    IN  [ k \in DOMAIN pairs |-> << starts[k], ends[k] >> ]

\* a call of the detector on a table, its two flags taken from Flags
DetectOn(table, Flags) ==
    \E kind \in SequenceKinds, rc \in Flags, rp \in Flags :
        /\ timeline' = table
        /\ seq_args' = [ called |-> TRUE, imagetyp |-> kind.imagetyp,
                         keys |-> kind.keys, require_contiguous |-> rc,
                         require_path_exists |-> rp ]
        /\ LET r == get_sequence_exposure_numbers(table, kind.imagetyp,
                                                  kind.keys, rc, rp)
           IN  seq_result' = [ indices |-> sequence_indices(table, r.pairs) ] @@ r

(***************************************************************************)
(* match_planned_to_plugged.  Coordinates are integers in units of a       *)
(* quarter of the tolerance, so that tol is 4.                             *)
(***************************************************************************)
Tol == 4

Abs(x) == IF x < 0 THEN -x ELSE x

IsApogeeHole(hole) ==
    hole.holetype \in { "APOGEE", "APOGEE_SHARED", "APOGEE_SOUTH" }

\* planned[(holetype == "APOGEE") | ...], in table order
RECURSIVE SelectPlanned(_)
SelectPlanned(s) ==
    IF s = << >> THEN << >>
    ELSE IF IsApogeeHole(Head(s)) THEN << Head(s) >> \o SelectPlanned(Tail(s))
    ELSE SelectPlanned(Tail(s))

\* plugged[plugged["spectrographId"] == 2], in table order
RECURSIVE SelectPlugged(_)
SelectPlugged(s) ==
    IF s = << >> THEN << >>
    ELSE IF Head(s).spectrographId = 2
         THEN << Head(s) >> \o SelectPlugged(Tail(s))
    ELSE SelectPlugged(Tail(s))

\* (ra_dist < tol) & (dec_dist < tol) for planned row p and plugged row q
MeetsTolerance(p, q) ==
    /\ Abs(p.target_ra - q.ra) < Tol
    /\ Abs(p.target_dec - q.dec) < Tol

\* dist ** 2 = ra_dist ** 2 + dec_dist ** 2
Dist2(p, q) ==
    (p.target_ra - q.ra) * (p.target_ra - q.ra)
    + (p.target_dec - q.dec) * (p.target_dec - q.dec)

\* np.sum(meets_tolerance, axis=0)[j]
NMatches(pl, pg, j) ==
    Cardinality({ i \in DOMAIN pl : MeetsTolerance(pl[i], pg[j]) })

\* np.argmin(dist[:, j], axis=0): the first planned row at the least distance
ArgMin(pl, q) ==
    CHOOSE i \in DOMAIN pl :
        /\ \A k \in DOMAIN pl : Dist2(pl[i], q) <= Dist2(pl[k], q)
        /\ \A k \in DOMAIN pl : Dist2(pl[k], q) = Dist2(pl[i], q) => i <= k

\* hstack([plugged[has_match], planned[planned_hole_indices]])
RECURSIVE MatchedRows(_, _, _)
MatchedRows(pl, pg, j) ==
    IF j > Len(pg) THEN << >>
    ELSE IF NMatches(pl, pg, j) = 1
         THEN << [ plugged |-> pg[j], planned |-> pl[ArgMin(pl, pg[j])] ] >>
              \o MatchedRows(pl, pg, j + 1)
         ELSE MatchedRows(pl, pg, j + 1)

\* a check that fails only when every plugged hole is ambiguous
IsAmbiguous_All(pl, pg) == \A j \in DOMAIN pg : NMatches(pl, pg, j) > 1

\* some plugged hole matches more than one planned hole (N > 0)
IsAmbiguous(pl, pg) == \E j \in DOMAIN pg : NMatches(pl, pg, j) > 1

match_planned_to_plugged(planned_rows, plugged_rows) ==
    LET pl == SelectPlanned(planned_rows)
        pg == SelectPlugged(plugged_rows)
    IN  IF IsAmbiguous(pl, pg)
        THEN [ called |-> TRUE, raised |-> "RuntimeError", rows |-> << >> ]
        ELSE IF pl = << >>
        THEN \* np.argmin over no planned holes
             [ called |-> TRUE, raised |-> "ValueError", rows |-> << >> ]
        ELSE [ called |-> TRUE, raised |-> "", rows |-> MatchedRows(pl, pg, 1) ]

(***************************************************************************)
(* FPSTarget: the fields expected_to_be_assigned_sdss_id reads, and the    *)
(* 2MASS designation the targets also carry.                               *)
(***************************************************************************)
\* the values of the Category literal
Categories ==
    { "", "bonus", "science", "sky_apogee", "sky_boss", "standard_apogee",
      "standard_boss", "open_fiber", "unplugged" }

\* category.startswith("sky_")
StartsWithSky(category) == category \in { "sky_apogee", "sky_boss" }

\* a property that only looks at the category
expected_to_be_assigned_sdss_id_AnyCatalogId(target) ==
    /\ ~ StartsWithSky(target.category)
    /\ target.category # ""

expected_to_be_assigned_sdss_id(target) ==
    /\ target.catalogid > 0
    /\ ~ StartsWithSky(target.category)
    /\ target.category # ""

\* the first night of the FPS era (Exposure.fps)
fps_start == [ apo |-> 59423, lco |-> 59810 ]

\* an FPSTarget built with the defaults of its fields
DefaultTarget == [ catalogid |-> -1, category |-> "", twomass_designation |-> "" ]

FpsIdle ==
    /\ fps_target = DefaultTarget
    /\ fps_expected = NoCall

(***************************************************************************)
(* Exposure: the "before" validators of the identifier, float and lamp     *)
(* fields.  Header values are strings; int() and float() are modelled on   *)
(* the strings of the model, floats are written as text and NaN as "NaN".  *)
(***************************************************************************)
HeaderValues == { "", "12", "12.5", "abc", "T", "F", "FPS" }

\* int(v) for a string v: the value, or ValueError
IntLiterals == [ v \in { "12" } |-> 12 ]

\* float(v) for a string v: the value, or ValueError
FloatLiterals == [ v \in { "12", "12.5" } |-> IF v = "12" THEN "12.0" ELSE v ]

Coerced(v) == [ raised |-> FALSE, value |-> v ]
Raises == [ raised |-> TRUE, value |-> "ValueError" ]

empty_string_to_int(v, default) ==
    IF v = "" THEN Coerced(default)
    ELSE IF v \in DOMAIN IntLiterals THEN Coerced(IntLiterals[v])
    ELSE Raises

validate_cart_id(v) ==
    IF v = "FPS" THEN Coerced(0) ELSE empty_string_to_int(v, -1)

validate_identifiers(v) == empty_string_to_int(v, -1)

validate_floats(v) ==
    IF v \in DOMAIN FloatLiterals THEN Coerced(FloatLiterals[v]) ELSE Coerced("NaN")

validate_lamps(v) ==
    CASE v = "F" -> Coerced(0)
      [] v = "T" -> Coerced(1)
      [] OTHER -> Coerced(-1)

\* Exposure(**headers): a validator that raises makes the construction raise
ExposureOf(h) ==
    LET cart_id == validate_cart_id(h.cartid)
        plate_id == validate_identifiers(h.plateid)
        config_id == validate_identifiers(h.configid)
        seeing == validate_floats(h.seeing)
        lamp_quartz == validate_lamps(h.lampqrtz)
    IN  IF cart_id.raised \/ plate_id.raised \/ config_id.raised
        THEN [ called |-> TRUE, raised |-> TRUE ]
        ELSE [ called |-> TRUE, raised |-> FALSE,
               cart_id |-> cart_id.value, plate_id |-> plate_id.value,
               config_id |-> config_id.value, seeing |-> seeing.value,
               lamp_quartz |-> lamp_quartz.value ]

HeaderFields == { "cartid", "plateid", "configid", "seeing", "lampqrtz" }

ExposureIdle ==
    /\ headers = [ f \in HeaderFields |-> "" ]
    /\ exposure_model = NoCall

(***************************************************************************)
(* io.update on the group of one (observatory, mjd).  An entry of the      *)
(* group is Absent or Present with what was written to it.                 *)
(***************************************************************************)
Absent == [ present |-> FALSE ]
Present(v) == [ present |-> TRUE, value |-> v ]

\* the output file before anything was written for the key
NoGroup ==
    [ exists |-> FALSE, exposures |-> Absent, sequences |-> Absent,
      fibers |-> Absent ]

\* str() of the identifiers of the model
IdString(n) ==
    CASE n = 300 -> "300"
      [] n = 301 -> "301"
      [] n = 15000 -> "15000"
      [] OTHER -> "-1"

\* str(exposure.config_id if exposure.fps else exposure.plate_id)
reference_id_string(exposure) ==
    IdString(IF exposure.fps THEN exposure.config_id ELSE exposure.plate_id)

\* the datasets write_models_to_hdf5_group writes: one column per field of
\* the model, here one row per model without the cached target list
FieldsOf(exposure) ==
    [ exposure |-> exposure.exposure, image_type |-> exposure.image_type,
      fps |-> exposure.fps, config_id |-> exposure.config_id,
      plate_id |-> exposure.plate_id ]

RowsOf(exposures) == [ i \in DOMAIN exposures |-> FieldsOf(exposures[i]) ]

\* an "exposures" entry that keeps the rows written before
ExposuresEntry_KeepOld(old, exposures) ==
    IF old.present THEN Present(old.value \o RowsOf(exposures))
    ELSE Present(RowsOf(exposures))

\* delete_hdf5_entry(group, "exposures"), then the group written anew
ExposuresEntry(old, exposures) == Present(RowsOf(exposures))

\* the sequences entry: left alone when there are no sequences
SequencesEntry(old, sequences) ==
    IF DOMAIN sequences # {} THEN Present(sequences) ELSE old

\* the loop over the exposures: the entry of a reference identifier is
\* rewritten from the first exposure with targets that carries it
RECURSIVE WriteFibers(_, _, _, _)
WriteFibers(entries, done, exposures, i) ==
    IF i > Len(exposures) THEN entries
    ELSE LET e == exposures[i]
             ref == reference_id_string(e)
         IN  IF e.targets = << >> \/ ref \in done
             THEN WriteFibers(entries, done, exposures, i + 1)
             ELSE WriteFibers(
                      (ref :> e.targets) @@ entries,
                      done \cup { ref }, exposures, i + 1)

FibersEntry(old, exposures) ==
    Present(WriteFibers(IF old.present THEN old.value ELSE << >>,
                        {}, exposures, 1))

\* update(fp, observatory, mjd, exposures, sequences, fibers): the group
\* after the call, and whether the call raised (models[0] of an empty list)
update(fp, exposures, sequences, fibers) ==
    LET written == [ fp EXCEPT !.exists = TRUE,
                                !.exposures = ExposuresEntry(fp.exposures, exposures) ]
    IN  IF exposures = << >>
        THEN [ raised |-> TRUE, file |-> written ]
        ELSE [ raised |-> FALSE,
               file |-> [ written EXCEPT
                   !.sequences = SequencesEntry(fp.sequences, sequences),
                   !.fibers = IF fibers THEN FibersEntry(fp.fibers, exposures)
                              ELSE fp.fibers ] ]

\* an update that takes the group of the observatory for the group of the key
update_key_WholeObservatory(root, key, args) ==
    LET r == update(root[key], args.exposures, args.sequences, args.fibers)
    IN  [ k \in DOMAIN root |-> IF k[1] = key[1] THEN r.file ELSE root[k] ]

\* update on the file: get_or_create_group(fp, f"{observatory}/{mjd}") is
\* the group of the key, and nothing outside it is touched
update_key(root, key, args) ==
    LET r == update(root[key], args.exposures, args.sequences, args.fibers)
    IN  [ root EXCEPT ![key] = r.file ]

IoIdle ==
    /\ h5file = NoGroup
    /\ io_log = << >>

(***************************************************************************)
(* cli.main: the loop over the (mjd, observatory) keys of a run, in the    *)
(* calling process or through a pool of worker processes.                  *)
(***************************************************************************)
\* the first n elements of a sequence, and the rest
Take(s, n) == SubSeq(s, 1, IF n < Len(s) THEN n ELSE Len(s))
Drop(s, n) == SubSeq(s, (IF n < Len(s) THEN n ELSE Len(s)) + 1, Len(s))

\* the driver before main is entered: no key submitted to the pool, no
\* result handled, no exception
DriverIdle ==
    [ state |-> "idle", pending |-> << >>, futures |-> {}, completed |-> {},
      submitted |-> << >>, handled |-> << >>, error |-> "" ]

\* the tuple apogee.get_almanac_data returns for a key, each component by
\* its type: (observatory, mjd, messages, exposures, sequence_indices,
\* fiber_maps), the last three None on a night without exposures
AlmanacReturn(key, empty) ==
    IF key \in empty
    THEN << key[2], key[1], "list of str", "None", "None", "None" >>
    ELSE << key[2], key[1], "list of str", "Table", "dict", "dict" >>

\* observatory, mjd, exposures, sequences = future.result(): ValueError
\* unless the tuple has four components
UnpackFour(result) ==
    IF Len(result) = 4
    THEN [ error |-> "", exposures |-> result[3], sequences |-> result[4] ]
    ELSE [ error |-> "ValueError", exposures |-> "", sequences |-> "" ]

\* *_, exposures, sequences = apogee.get_almanac_data(...): the last two
UnpackLastTwo(result) ==
    [ error |-> "", exposures |-> result[Len(result) - 1],
      sequences |-> result[Len(result)] ]

\* [e.image_type == "missing" for e in exposures]: the exception it raises
\* on a value that is not a list of Exposure models
ReadImageTypes(exposures) ==
    CASE exposures = "list of Exposure" -> ""
      [] exposures = "None" -> "TypeError"
      [] OTHER -> "AttributeError"

CliIdle ==
    /\ batch = [ keys |-> << >>, failing |-> {}, empty |-> {}, processes |-> 0 ]
    /\ driver = DriverIdle

(***************************************************************************)
(* get_almanac_data with fibers: the fiber maps of the configurations and  *)
(* plates of the night, and the cross-match of their targets.              *)
(***************************************************************************)
\* target_id_to_designation on the target identifiers of the model: the
\* "2MASS" prefix and the leading characters "-Jdb_" are dropped
target_id_to_designation(target_id) ==
    CASE target_id = "2MASS-J0001+01" -> "0001+01"
      [] target_id = "2MASS-J0002+02" -> "0002+02"
      [] OTHER -> target_id

\* the FIBERMAP rows of the confSummary file of a configuration (catalogid
\* -1 is a fiber without a target)
FiberMapFile(config_id) ==
    CASE config_id = "300" -> << [ catalogid |-> 1 ], [ catalogid |-> 2 ] >>
      [] config_id = "301" -> << [ catalogid |-> 2 ], [ catalogid |-> -1 ] >>
      [] OTHER -> << [ catalogid |-> 1 ] >>

\* the APOGEE rows of the plateHoles file of a plate
PlateHolesFile(plate_id) ==
    CASE plate_id = "15000" ->
           << [ targetids |-> "2MASS-J0001+01" ], [ targetids |-> "2MASS-J0002+02" ] >>
      [] plate_id = "15001" ->
           << [ targetids |-> "2MASS-J0002+02" ], [ targetids |-> "" ] >>
      [] OTHER -> << [ targetids |-> "2MASS-J0001+01" ] >>

\* get_fps_targets: the rows with a placeholder sdss_id
get_fps_targets(config_id) ==
    LET t == FiberMapFile(config_id)
    IN  [ ids |-> { t[i].catalogid : i \in DOMAIN t },
          targets |-> [ i \in DOMAIN t |->
                          [ catalogid |-> t[i].catalogid, sdss_id |-> -1 ] ] ]

\* get_plate_targets: the rows with a placeholder sdss_id and the target
\* identifiers turned into designations
get_plate_targets(plate_id) ==
    LET t == PlateHolesFile(plate_id)
        targets == [ i \in DOMAIN t |->
                       [ target_id |-> target_id_to_designation(t[i].targetids),
                         sdss_id |-> -1 ] ]
    IN  [ ids |-> { targets[i].target_id : i \in DOMAIN targets },
          targets |-> targets ]

\* the number of calls of f made for an item
FetchCount(fetched, item) ==
    IF item \in DOMAIN fetched THEN fetched[item] ELSE 0

\* a loop body that reads the file of an item twice
FetchItem_Twice(kind, item, acc) ==
    LET r == IF kind = "fps" THEN get_fps_targets(item) ELSE get_plate_targets(item)
    IN  [ all_ids |-> acc.all_ids \cup r.ids,
          mappings |-> (item :> r.targets) @@ acc.mappings,
          fetched |-> (item :> (FetchCount(acc.fetched, item) + 2)) @@ acc.fetched ]

\* the body of the loop of get_fiber_mappings: one call of f for the item
FetchItem(kind, item, acc) ==
    LET r == IF kind = "fps" THEN get_fps_targets(item) ELSE get_plate_targets(item)
    IN  [ all_ids |-> acc.all_ids \cup r.ids,
          mappings |-> (item :> r.targets) @@ acc.mappings,
          fetched |-> (item :> (FetchCount(acc.fetched, item) + 1)) @@ acc.fetched ]

\* get_fiber_mappings: f is called for each item of the iterable
RECURSIVE get_fiber_mappings(_, _, _)
get_fiber_mappings(kind, iterable, acc) ==
    IF iterable = {} THEN acc
    ELSE LET item == CHOOSE x \in iterable : TRUE
         IN  get_fiber_mappings(kind, iterable \ { item },
                                FetchItem(kind, item, acc))

NoMappings == [ all_ids |-> {}, mappings |-> << >>, fetched |-> << >> ]

\* the values of a column of the table
ColumnSet(table, column) == { table[i][column] : i \in DOMAIN table }

\* sdss_id_lookup.get(identifier, -1) for every target of every map
Resolved(mappings, lookup, kind) ==
    [ ref \in DOMAIN mappings |->
        [ i \in DOMAIN mappings[ref] |->
            LET target == mappings[ref][i]
                identifier == IF kind = "fps" THEN target.catalogid
                              ELSE target_id_to_designation(target.target_id)
            IN  [ target EXCEPT !.sdss_id =
                    IF identifier \in DOMAIN lookup THEN lookup[identifier]
                    ELSE -1 ] ] ]

\* a cross-match that never writes an sdss_id
CrossMatch_Skipped(mappings, ids, table, kind) == mappings

\* the query for the identifiers of one kind, and the targets of that kind
\* with the sdss_id the query gave; no query for an empty set
CrossMatch(mappings, ids, table, kind) ==
    IF ids = {} THEN mappings
    ELSE Resolved(mappings, [ x \in ids \cap DOMAIN table |-> table[x] ], kind)

\* the queries issued: one per kind with identifiers
QueriesOf(catalogids, twomass_designations) ==
    (IF catalogids = {} THEN << >>
     ELSE << [ kind |-> "catalogid", ids |-> catalogids ] >>)
    \o (IF twomass_designations = {} THEN << >>
        ELSE << [ kind |-> "designation", ids |-> twomass_designations ] >>)

\* get_expected_exposure_metadata: no query before the cutoff, and the
\* query fails when the database is not available
get_expected_exposure_metadata(obs, night, db, rows) ==
    IF night < sdssdb_exposure_min_mjd[obs]
    THEN [ raised |-> FALSE, expected |-> EmptyMap ]
    ELSE IF ~ db.available
    THEN [ raised |-> TRUE, expected |-> EmptyMap ]
    ELSE [ raised |-> FALSE, expected |-> rows ]

Raised == [ called |-> TRUE, raised |-> TRUE ]

\* lines 501-587 of get_almanac_data, on the organized exposures
AttachTargets(exposures, db, req) ==
    LET configids == ColumnSet(exposures, "configid") \ { "", "-1", "-999" }
        plateids == ColumnSet(exposures, "plateid") \ { "", "0", "-1" }
        fps == get_fiber_mappings("fps", configids, NoMappings)
        plates == get_fiber_mappings("plates", plateids, NoMappings)
        xmatch == req.xmatch /\ db.available
    IN  [ fetched |-> [ fps |-> fps.fetched, plates |-> plates.fetched ],
          queries |-> IF xmatch THEN QueriesOf(fps.all_ids, plates.all_ids)
                      ELSE << >>,
          fiber_maps |->
              [ fps |-> IF xmatch
                        THEN CrossMatch(fps.mappings, fps.all_ids, db.catalog, "fps")
                        ELSE fps.mappings,
                plates |-> IF xmatch
                           THEN CrossMatch(plates.mappings, plates.all_ids,
                                           db.twomass, "plates")
                           ELSE plates.mappings ] ]

NothingAttached ==
    [ fetched |-> [ fps |-> << >>, plates |-> << >> ], queries |-> << >>,
      fiber_maps |-> [ fps |-> << >>, plates |-> << >> ] ]

get_almanac_data(obs, night, exposures_on_disk, rows, db, req) ==
    LET e == get_expected_exposure_metadata(obs, night, db, rows)
        o == organize_exposures(exposures_on_disk, e.expected, TRUE)
    IN  IF e.raised \/ o.raised THEN Raised
        ELSE IF Len(o.corrected) = 0
        THEN [ called |-> TRUE, raised |-> FALSE, exposures |-> << >>,
               sequences |-> << >> ] @@ NothingAttached
        ELSE [ called |-> TRUE, raised |-> FALSE, exposures |-> o.corrected,
               sequences |->
                   get_sequence_exposure_numbers(o.corrected, "Object",
                       ObjectKeys, TRUE, TRUE).pairs ]
             @@ (IF req.fibers THEN AttachTargets(o.corrected, db, req)
                 ELSE NothingAttached)

FiberIdle ==
    /\ backend = [ available |-> FALSE, catalog |-> << >>, twomass |-> << >> ]
    /\ request = [ fibers |-> FALSE, xmatch |-> FALSE ]
    /\ almanac = NoCall

(***************************************************************************)
(* get_unique_exposure_paths.  A path {apogee_dir}/{observatory}/{mjd}/    *)
(* {prefix}-{chip}-{exposure}.apz is the record of its parts; the          *)
(* directory above the observatory is config.apogee_dir for the paths the  *)
(* glob returns and for the paths the function builds, and is left out.    *)
(***************************************************************************)
\* "abc".index(chip) and "abc"[i], from 1
ChipIndex(chip) == CASE chip = "a" -> 1 [] chip = "b" -> 2 [] OTHER -> 3
ChipAt(i) == << "a", "b", "c" >>[i]

\* key = (observatory, mjd, exposure_apz)
PathKey(path) == << path.observatory, path.mjd, path.exposure >>

\* the position of the key in chip_mapping, 0 when it is not there
KeyPosition(chip_mapping, key) ==
    IF \E i \in DOMAIN chip_mapping : chip_mapping[i].key = key
    THEN CHOOSE i \in DOMAIN chip_mapping : chip_mapping[i].key = key
    ELSE 0

\* the body of the first loop: setdefault keeps the prefix of the first
\* path of the key, then the flag of the chip is set
CollectChip(chip_mapping, path) ==
    LET key == PathKey(path)
        at == KeyPosition(chip_mapping, key)
        with_key == IF at # 0 THEN chip_mapping
                    ELSE Append(chip_mapping,
                                [ key |-> key, prefix |-> path.prefix,
                                  chips |-> << FALSE, FALSE, FALSE >> ])
        i == KeyPosition(with_key, key)
    IN  [ with_key EXCEPT ![i].chips[ChipIndex(path.chip)] = TRUE ]

\* chip_mapping after the first loop, in insertion order
RECURSIVE CollectChips(_, _, _)
CollectChips(chip_mapping, path_list, i) ==
    IF i > Len(path_list) THEN chip_mapping
    ELSE CollectChips(CollectChip(chip_mapping, path_list[i]), path_list, i + 1)

\* chips.index(True)
FirstChip(chips) == CHOOSE i \in 1 .. 3 : chips[i] /\ \A j \in 1 .. (i - 1) : ~ chips[j]

get_unique_exposure_paths(path_list) ==
    LET chip_mapping == CollectChips(<< >>, path_list, 1)
    IN  [ i \in DOMAIN chip_mapping |->
            [ path |-> [ observatory |-> chip_mapping[i].key[1],
                         mjd |-> chip_mapping[i].key[2],
                         prefix |-> chip_mapping[i].prefix,
                         chip |-> ChipAt(FirstChip(chip_mapping[i].chips)),
                         exposure |-> chip_mapping[i].key[3] ],
              chips |-> chip_mapping[i].chips ] ]

PathIdle ==
    /\ paths = << >>
    /\ unique_paths = NoCall

StoreIdle ==
    /\ h5root = << >>
    /\ io_tasks = << >>

ExtIdle ==
    /\ FpsIdle
    /\ ExposureIdle
    /\ IoIdle
    /\ CliIdle
    /\ FiberIdle
    /\ PathIdle
    /\ StoreIdle

(***************************************************************************)
(* The reconciler's callers: a first call, then optionally a reshuffled    *)
(* list and a fresh copy of the expected mapping, and a second call.       *)
(***************************************************************************)
\* the expected mappings of the model: any set of the numbers prefix+0 ..
\* prefix+MaxK+1, each with a database record
ExpectedMaps(obs, night) ==
    { [ n \in { mjd_to_exposure_prefix(night) + k : k \in K }
          |-> ExpectedRecord(obs, night, n) ] : K \in SUBSET (0 .. (MaxK + 1)) }

\* the on-disk lists of the model: any set of the numbers prefix+1 ..
\* prefix+MaxK, in any order
OnDiskLists(obs, night) ==
    UNION { Perms({ OnDiskRecord(obs, night, mjd_to_exposure_prefix(night) + k)
                      : k \in K }) : K \in SUBSET (1 .. MaxK) }

SeqIdle ==
    /\ timeline = << >>
    /\ seq_args = NoCall
    /\ seq_result = NoCall

MatchIdle ==
    /\ planned = << >>
    /\ plugged = << >>
    /\ match_result = NoCall

InitOrganize ==
    /\ observatory \in Observatories
    /\ mjd \in MJDs
    /\ on_disk \in OnDiskLists(observatory, mjd)
    /\ \E given \in ExpectedMaps(observatory, mjd) :
         /\ opsdb = given
         /\ expected = given
    /\ require_exposures_start_at_1 \in BOOLEAN
    /\ calls = << >>

Init ==
    /\ InitOrganize
    /\ SeqIdle
    /\ MatchIdle
    /\ ExtIdle

\* a call of organize_exposures with the caller's list and dict objects
Organize ==
    /\ Len(calls) < 2
    /\ seq_result = NoCall
    /\ LET r == organize_exposures(on_disk, expected, require_exposures_start_at_1)
       IN  /\ calls' = Append(calls,
                 [ on_disk |-> on_disk, expected |-> expected,
                   raised |-> r.raised, corrected |-> r.corrected,
                   messages |-> r.messages, expected_after |-> r.expected ])
           /\ expected' = r.expected
    /\ UNCHANGED << observatory, mjd, opsdb, on_disk,
                    require_exposures_start_at_1, seq_vars, match_vars, ext_vars >>

\* the caller reorders its list between two calls that get the same mapping
Shuffle ==
    /\ Len(calls) = 1
    /\ seq_result = NoCall
    /\ expected = opsdb
    /\ on_disk = calls[1].on_disk
    /\ on_disk' \in Perms(Range(on_disk)) \ { on_disk }
    /\ UNCHANGED << observatory, mjd, opsdb, expected,
                    require_exposures_start_at_1, calls, seq_vars, match_vars, ext_vars >>

\* the caller takes a fresh copy of the expected mapping between two calls
Requery ==
    /\ Len(calls) = 1
    /\ seq_result = NoCall
    /\ expected # opsdb
    /\ expected' = opsdb
    /\ UNCHANGED << observatory, mjd, opsdb, on_disk,
                    require_exposures_start_at_1, calls, seq_vars, match_vars, ext_vars >>

\* get_almanac_data: the sequences of the timeline the call returned (with
\* the default flags), which is not looked at when it is empty
Detect ==
    /\ Len(calls) = 1
    /\ on_disk = calls[1].on_disk
    /\ expected = calls[1].expected_after
    /\ ~ calls[1].raised
    /\ Len(calls[1].corrected) > 0
    /\ seq_result = NoCall
    /\ DetectOn(calls[1].corrected, { TRUE })
    /\ UNCHANGED << org_vars, match_vars, ext_vars >>

Next ==
    \/ Organize
    \/ Shuffle
    \/ Requery
    \/ Detect

Spec == Init /\ [][Next]_vars

(***************************************************************************)
(* The sequence detector on any table with distinct exposure numbers, and   *)
(* the reconciler on a night with no exposure at all.                      *)
(***************************************************************************)
\* the rows of the model: two fields of on-disk Object exposures, a
\* placeholder built from a database record of an Object exposure, and an
\* on-disk ArcLamp exposure
RowKinds == { "objectA", "objectB", "placeholder", "arclamp" }

TimelineRow(n, kind) ==
    [ exposure |-> n,
      imagetyp |-> IF kind = "arclamp" THEN "ArcLamp" ELSE "Object",
      path_exists |-> kind # "placeholder",
      fieldid |-> CASE kind = "objectA" -> "100"
                    [] kind = "objectB" -> "101"
                    [] OTHER -> "-1",
      plateid |-> "",
      configid |-> "300",
      dithpix |-> IF kind = "placeholder" THEN "" ELSE "12.5" ]

\* the table with a row of kind f[n] for each n, in ascending order
RECURSIVE TimelineOf(_, _)
TimelineOf(f, n) ==
    IF n > MaxRows THEN << >>
    ELSE IF f[n] = "absent" THEN TimelineOf(f, n + 1)
    ELSE << TimelineRow(n, f[n]) >> \o TimelineOf(f, n + 1)

OrganizeIdle ==
    /\ observatory = "apo"
    /\ mjd = 59558
    /\ opsdb = EmptyMap
    /\ on_disk = << >>
    /\ expected = EmptyMap
    /\ require_exposures_start_at_1 = TRUE
    /\ calls = << >>

InitSeq ==
    /\ OrganizeIdle
    /\ MatchIdle
    /\ ExtIdle
    /\ \E f \in [ 1 .. MaxRows -> RowKinds \cup { "absent" } ] :
         timeline = TimelineOf(f, 1)
    /\ seq_args = NoCall
    /\ seq_result = NoCall

DetectTimeline ==
    /\ seq_result = NoCall
    /\ DetectOn(timeline, BOOLEAN)
    /\ UNCHANGED << org_vars, match_vars, ext_vars >>

\* organize_exposures on a night with nothing on disk and nothing expected
OrganizeEmptyNight ==
    /\ on_disk = << >>
    /\ DOMAIN expected = {}
    /\ Organize

NextSeq ==
    \/ DetectTimeline
    \/ OrganizeEmptyNight

SpecSeq == InitSeq /\ [][NextSeq]_vars

(***************************************************************************)
(* Plate matching on two planned and two plugged holes.                    *)
(***************************************************************************)
PlannedHoles ==
    [ target_ra : 0 .. MaxCoord, target_dec : 0 .. MaxCoord,
      holetype : { "APOGEE", "BOSS" } ]

\* plugged holes lie at the two ends of the diagonal of the planned grid
PluggedHoles ==
    { [ ra |-> c, dec |-> c, spectrographId |-> sp ] :
        c \in { 0, MaxCoord }, sp \in { 1, 2 } }

InitMatch ==
    /\ OrganizeIdle
    /\ SeqIdle
    /\ ExtIdle
    /\ planned \in [ 1 .. 2 -> PlannedHoles ]
    /\ plugged \in [ 1 .. 2 -> PluggedHoles ]
    /\ match_result = NoCall

Match ==
    /\ match_result = NoCall
    /\ match_result' = match_planned_to_plugged(planned, plugged)
    /\ UNCHANGED << org_vars, seq_vars, planned, plugged, ext_vars >>

NextMatch == Match

SpecMatch == InitMatch /\ [][NextMatch]_vars

(***************************************************************************)
(* The property of a target, on any FPSTarget.                             *)
(***************************************************************************)
FPSTargets ==
    [ catalogid : -1 .. MaxCatalogId,
      category : Categories,
      twomass_designation : { "", "12345678+1234567" } ]

InitFps ==
    /\ OrganizeIdle
    /\ SeqIdle
    /\ MatchIdle
    /\ fps_target \in FPSTargets
    /\ fps_expected = NoCall
    /\ ExposureIdle
    /\ IoIdle
    /\ CliIdle
    /\ FiberIdle
    /\ PathIdle
    /\ StoreIdle

ReadExpected ==
    /\ fps_expected = NoCall
    /\ fps_expected' = [ called |-> TRUE,
                         value |-> expected_to_be_assigned_sdss_id(fps_target) ]
    /\ UNCHANGED << org_vars, seq_vars, match_vars, fps_target, exp_vars, io_vars, cli_vars, fiber_vars,
                    path_vars, store_vars >>

NextFps == ReadExpected

SpecFps == InitFps /\ [][NextFps]_vars

(***************************************************************************)
(* The construction of an Exposure from any header values.                 *)
(***************************************************************************)
InitExposure ==
    /\ OrganizeIdle
    /\ SeqIdle
    /\ MatchIdle
    /\ FpsIdle
    /\ headers \in [ HeaderFields -> HeaderValues ]
    /\ exposure_model = NoCall
    /\ IoIdle
    /\ CliIdle
    /\ FiberIdle
    /\ PathIdle
    /\ StoreIdle

Construct ==
    /\ exposure_model = NoCall
    /\ exposure_model' = ExposureOf(headers)
    /\ UNCHANGED << org_vars, seq_vars, match_vars, fps_vars, headers, io_vars, cli_vars, fiber_vars,
                    path_vars, store_vars >>

NextExposure == Construct

SpecExposure == InitExposure /\ [][NextExposure]_vars

(***************************************************************************)
(* Persistence: a call of update on any earlier state of the group, then   *)
(* the same call again.                                                    *)
(***************************************************************************)
\* the exposures handed to update: an FPS exposure with targets, one of
\* another configuration, a plate exposure with targets, and a dark
IoExposureKinds == { "fps300", "fps301", "plate", "dark" }

IoExposure(n, kind) ==
    [ exposure |-> n,
      image_type |-> IF kind = "dark" THEN "dark" ELSE "object",
      fps |-> kind # "plate",
      config_id |-> CASE kind = "fps301" -> 301
                      [] kind = "plate" -> -1
                      [] OTHER -> 300,
      plate_id |-> IF kind = "plate" THEN 15000 ELSE -1,
      targets |-> CASE kind = "fps300" -> << "target of 300" >>
                    [] kind = "fps301" -> << "target of 301" >>
                    [] kind = "plate" -> << "target of 15000" >>
                    [] OTHER -> << >> ]

IoExposureLists ==
    UNION { { [ i \in 1 .. n |-> IoExposure(i, f[i]) ] :
                f \in [ 1 .. n -> IoExposureKinds ] } : n \in 0 .. MaxWritten }

IoSequences ==
    { << >>,
      [ objects |-> << << 1, 1 >> >> ],
      [ objects |-> << << 1, 2 >> >>, arclamps |-> << >> ] }

\* what an earlier run may have left in the group
EarlierFiles ==
    { NoGroup } \cup
    [ exists : { TRUE },
      exposures : { Absent, Present(<< >>),
                    Present(RowsOf(<< IoExposure(1, "fps300") >>)) },
      sequences : { Absent, Present([ objects |-> << << 1, 3 >> >> ]) },
      fibers : { Absent, Present(<< >>),
                 Present("300" :> << "earlier target" >>),
                 Present("999" :> << "earlier target" >>) } ]

InitIo ==
    /\ OrganizeIdle
    /\ SeqIdle
    /\ MatchIdle
    /\ FpsIdle
    /\ ExposureIdle
    /\ h5file \in EarlierFiles
    /\ io_log = << >>
    /\ CliIdle
    /\ FiberIdle
    /\ PathIdle
    /\ StoreIdle

\* a call of update with any arguments
Update ==
    /\ io_log = << >>
    /\ \E exposures \in IoExposureLists, sequences \in IoSequences,
          fibers \in BOOLEAN :
         LET r == update(h5file, exposures, sequences, fibers)
         IN  /\ h5file' = r.file
             /\ io_log' = << [ exposures |-> exposures, sequences |-> sequences,
                               fibers |-> fibers, before |-> h5file,
                               raised |-> r.raised, file |-> r.file ] >>
    /\ UNCHANGED << org_vars, seq_vars, match_vars, fps_vars, exp_vars, cli_vars, fiber_vars,
                    path_vars, store_vars >>

\* the same call once more
UpdateAgain ==
    /\ Len(io_log) = 1
    /\ LET a == io_log[1]
           r == update(h5file, a.exposures, a.sequences, a.fibers)
       IN  /\ h5file' = r.file
           /\ io_log' = Append(io_log, [ a EXCEPT !.before = h5file,
                                                  !.raised = r.raised,
                                                  !.file = r.file ])
    /\ UNCHANGED << org_vars, seq_vars, match_vars, fps_vars, exp_vars, cli_vars, fiber_vars,
                    path_vars, store_vars >>

NextIo ==
    \/ Update
    \/ UpdateAgain

SpecIo == InitIo /\ [][NextIo]_vars

(***************************************************************************)
(* The output file of a run over several keys: the update of each key is   *)
(* made once, the updates in any order.                                    *)
(***************************************************************************)
\* (observatory, mjd) keys that share an observatory or a night
StoreKeys == { << "apo", 59558 >>, << "apo", 59559 >>, << "lco", 59558 >> }

\* what an earlier run may have left in the group of a key
StoreEarlier ==
    { NoGroup,
      [ exists |-> TRUE,
        exposures |-> Present(RowsOf(<< IoExposure(1, "fps300") >>)),
        sequences |-> Present([ objects |-> << << 1, 3 >> >> ]),
        fibers |-> Present("300" :> << "earlier target" >>) ] }

\* the arguments of the update of a key: the exposures and sequences of
\* its night, fibers as the run was asked
StoreTasks ==
    { [ exposures |-> << IoExposure(1, "fps300") >>,
        sequences |-> [ objects |-> << << 1, 1 >> >> ], fibers |-> TRUE ],
      [ exposures |-> << IoExposure(1, "fps301"), IoExposure(2, "dark") >>,
        sequences |-> [ objects |-> << << 1, 1 >> >> ], fibers |-> TRUE ],
      [ exposures |-> << IoExposure(1, "dark") >>,
        sequences |-> << >>, fibers |-> FALSE ] }

InitStore ==
    /\ OrganizeIdle
    /\ SeqIdle
    /\ MatchIdle
    /\ FpsIdle
    /\ ExposureIdle
    /\ IoIdle
    /\ CliIdle
    /\ FiberIdle
    /\ PathIdle
    /\ h5root \in [ StoreKeys -> StoreEarlier ]
    /\ io_tasks \in [ StoreKeys -> StoreTasks ]

\* the task of a key completes and its result is written
UpdateKey ==
    \E key \in StoreKeys :
        /\ \A i \in DOMAIN io_log : io_log[i].key # key
        /\ h5root' = update_key(h5root, key, io_tasks[key])
        /\ io_log' = Append(io_log, [ key |-> key, before |-> h5root,
                                      file |-> h5root' ])
        /\ UNCHANGED << org_vars, seq_vars, match_vars, fps_vars, exp_vars, h5file, cli_vars,
                        fiber_vars, path_vars, io_tasks >>

NextStore == UpdateKey

SpecStore == InitStore /\ [][NextStore]_vars

(***************************************************************************)
(* The batch driver on any run: which keys raise in get_almanac_data is an *)
(* input, and so is the order in which the futures of the pool complete.   *)
(***************************************************************************)
\* product(mjds, observatories) for a range of n nights
RunKeys(n) ==
    [ i \in 1 .. (2 * n) |->
        << 59557 + ((i + 1) \div 2), IF i % 2 = 1 THEN "apo" ELSE "lco" >> ]

InitCli ==
    /\ OrganizeIdle
    /\ SeqIdle
    /\ MatchIdle
    /\ FpsIdle
    /\ ExposureIdle
    /\ IoIdle
    /\ \E n \in 0 .. MaxNights, processes \in 0 .. MaxProcesses :
         \E failing \in SUBSET Range(RunKeys(n)), empty \in SUBSET Range(RunKeys(n)) :
             batch = [ keys |-> RunKeys(n), failing |-> failing, empty |-> empty,
                       processes |-> processes ]
    /\ driver = DriverIdle
    /\ FiberIdle
    /\ PathIdle
    /\ StoreIdle

\* lines 85-118: the pool is created and the first `processes` keys of the
\* iterable are submitted
SubmitFirst ==
    /\ driver.state = "idle"
    /\ batch.processes > 0
    /\ driver' = [ driver EXCEPT
                     !.state = "pool",
                     !.pending = Drop(batch.keys, batch.processes),
                     !.futures = Range(Take(batch.keys, batch.processes)),
                     !.submitted = Take(batch.keys, batch.processes) ]
    /\ UNCHANGED << org_vars, seq_vars, match_vars, fps_vars, exp_vars, io_vars, batch, fiber_vars,
                    path_vars, store_vars >>

\* lines 120-159: a future completes; future.result() re-raises what the
\* worker raised and its value is unpacked into four names, and nothing
\* but KeyboardInterrupt is caught; otherwise the result is handled, the
\* future removed and the next key of the iterable submitted
FutureCompletes ==
    /\ driver.state = "pool"
    /\ \E key \in driver.futures :
         LET result == UnpackFour(AlmanacReturn(key, batch.empty))
             display == IF result.error # "" THEN result.error
                        ELSE ReadImageTypes(result.exposures)
         IN  IF key \in batch.failing
             THEN driver' = [ driver EXCEPT !.state = "aborted",
                                            !.error = "raised by the worker" ]
             ELSE IF display # ""
             THEN driver' = [ driver EXCEPT !.state = "aborted", !.error = display ]
             ELSE driver' =
                    [ driver EXCEPT
                        !.completed = @ \cup { key },
                        !.handled = Append(@, key),
                        !.futures = (@ \ { key }) \cup Range(Take(driver.pending, 1)),
                        !.submitted = @ \o Take(driver.pending, 1),
                        !.pending = Drop(@, 1) ]
    /\ UNCHANGED << org_vars, seq_vars, match_vars, fps_vars, exp_vars, io_vars, batch, fiber_vars,
                    path_vars, store_vars >>

\* lines 170-172: the loop in the calling process is entered
EnterLoop ==
    /\ driver.state = "idle"
    /\ batch.processes = 0
    /\ driver' = [ driver EXCEPT !.state = "loop", !.pending = batch.keys ]
    /\ UNCHANGED << org_vars, seq_vars, match_vars, fps_vars, exp_vars, io_vars, batch, fiber_vars,
                    path_vars, store_vars >>

\* lines 172-189: one pass of the loop; get_almanac_data is called outside
\* any try statement and the last two components of its value are read
\* as the exposures and the sequences
LoopStep ==
    /\ driver.state = "loop"
    /\ driver.pending # << >>
    /\ LET key == Head(driver.pending)
           result == UnpackLastTwo(AlmanacReturn(key, batch.empty))
           display == ReadImageTypes(result.exposures)
       IN  IF key \in batch.failing
           THEN driver' = [ driver EXCEPT !.state = "aborted",
                                          !.error = "raised by get_almanac_data" ]
           ELSE IF display # ""
           THEN driver' = [ driver EXCEPT !.state = "aborted", !.error = display ]
           ELSE driver' = [ driver EXCEPT !.completed = @ \cup { key },
                                          !.handled = Append(@, key),
                                          !.pending = Tail(@) ]
    /\ UNCHANGED << org_vars, seq_vars, match_vars, fps_vars, exp_vars, io_vars, batch, fiber_vars,
                    path_vars, store_vars >>

\* the loop ends: no future is left, or the iterable is exhausted
LoopEnds ==
    /\ \/ driver.state = "pool" /\ driver.futures = {}
       \/ driver.state = "loop" /\ driver.pending = << >>
    /\ driver' = [ driver EXCEPT !.state = "finished" ]
    /\ UNCHANGED << org_vars, seq_vars, match_vars, fps_vars, exp_vars, io_vars, batch, fiber_vars,
                    path_vars, store_vars >>

NextCli ==
    \/ SubmitFirst
    \/ FutureCompletes
    \/ EnterLoop
    \/ LoopStep
    \/ LoopEnds

SpecCli == InitCli /\ [][NextCli]_vars

(***************************************************************************)
(* get_almanac_data on a night of the plate era, a night of the FPS era    *)
(* before the operations database covers it, and a covered night.          *)
(***************************************************************************)
FiberMJDs == { 56000, 59500, 59558 }

\* the exposures on disk: Object exposures of two configurations (plates
\* before the FPS era) and a Dark exposure that carries a third
FiberKinds == { "objectA", "objectB", "dark" }

FiberExposure(obs, night, n, kind) ==
    LET ref == CASE kind = "objectA" -> 0 [] kind = "objectB" -> 1 [] OTHER -> 2
        is_fps == night >= fps_start[obs]
    IN  [ OnDiskRecord(obs, night, n) EXCEPT
            !["imagetyp"] = IF kind = "dark" THEN "Dark" ELSE "Object",
            !["exptype"] = IF kind = "dark" THEN "DARK" ELSE "OBJECT",
            !["fieldid"] = IF kind = "objectB" THEN "101" ELSE "100",
            !["configid"] = IF is_fps THEN << "300", "301", "302" >>[ref + 1] ELSE "",
            !["plateid"] = IF is_fps THEN ""
                           ELSE << "15000", "15001", "15002" >>[ref + 1] ]

RECURSIVE FiberListOf(_, _, _, _)
FiberListOf(obs, night, f, k) ==
    IF k > MaxK THEN << >>
    ELSE IF f[k] = "absent" THEN FiberListOf(obs, night, f, k + 1)
    ELSE << FiberExposure(obs, night, mjd_to_exposure_prefix(night) + k, f[k]) >>
         \o FiberListOf(obs, night, f, k + 1)

\* the rows of the operations database for a covered night
CoveredRows(obs, night) ==
    IF night < sdssdb_exposure_min_mjd[obs] THEN EmptyMap
    ELSE LET n == mjd_to_exposure_prefix(night) + 2
         IN  (n :> ExpectedRecord(obs, night, n))

\* the databases of the model: the catalog identifiers of Known resolve,
\* and so do the designations of the same rank
Backends ==
    { [ available |-> a,
        catalog |-> [ c \in Known |-> 100 + c ],
        twomass |-> [ d \in { << "0001+01", "0002+02" >>[c] : c \in Known \cap { 1, 2 } }
                        |-> IF d = "0001+01" THEN 201 ELSE 202 ] ] :
        a \in BOOLEAN, Known \in SUBSET (1 .. MaxCatalogId) }

InitFibers ==
    /\ observatory = "apo"
    /\ mjd \in FiberMJDs
    /\ \E f \in [ 1 .. MaxK -> FiberKinds \cup { "absent" } ] :
         on_disk = FiberListOf(observatory, mjd, f, 1)
    /\ opsdb = CoveredRows(observatory, mjd)
    /\ expected = EmptyMap
    /\ require_exposures_start_at_1 = TRUE
    /\ calls = << >>
    /\ SeqIdle
    /\ MatchIdle
    /\ FpsIdle
    /\ ExposureIdle
    /\ IoIdle
    /\ CliIdle
    /\ backend \in Backends
    /\ request \in [ fibers : BOOLEAN, xmatch : BOOLEAN ]
    /\ almanac = NoCall
    /\ PathIdle
    /\ StoreIdle

GetAlmanacData ==
    /\ almanac = NoCall
    /\ almanac' = get_almanac_data(observatory, mjd, on_disk, opsdb, backend, request)
    /\ UNCHANGED << org_vars, seq_vars, match_vars, fps_vars, exp_vars, io_vars, cli_vars, backend, request,
                    path_vars, store_vars >>

NextFibers == GetAlmanacData

SpecFibers == InitFibers /\ [][NextFibers]_vars

(***************************************************************************)
(* get_unique_exposure_paths on the files of a directory tree: two         *)
(* exposures of one night and one of the next, each file with either       *)
(* prefix the glob a?R-*.apz admits.                                       *)
(***************************************************************************)
\* the lists handed to the function have at most MaxPaths paths
MaxPaths == 3

RawFiles ==
    [ observatory : { "apo" }, mjd : { "59558" }, prefix : { "apR", "asR" },
      chip : { "a", "b", "c" }, exposure : { "39960001.apz", "39960002.apz" } ]
    \cup
    [ observatory : { "apo" }, mjd : { "59559" }, prefix : { "apR", "asR" },
      chip : { "a", "b", "c" }, exposure : { "39960001.apz" } ]

\* what glob may return: distinct files, in any order
PathLists ==
    UNION { { s \in [ 1 .. n -> RawFiles ] : \A i, j \in 1 .. n : s[i] = s[j] => i = j } :
              n \in 0 .. MaxPaths }

InitPaths ==
    /\ OrganizeIdle
    /\ SeqIdle
    /\ MatchIdle
    /\ FpsIdle
    /\ ExposureIdle
    /\ IoIdle
    /\ CliIdle
    /\ FiberIdle
    /\ StoreIdle
    /\ paths \in PathLists
    /\ unique_paths = NoCall

GetUniquePaths ==
    /\ unique_paths = NoCall
    /\ unique_paths' = [ called |-> TRUE, entries |-> get_unique_exposure_paths(paths) ]
    /\ UNCHANGED << org_vars, seq_vars, match_vars, fps_vars, exp_vars, io_vars, cli_vars, fiber_vars,
                    paths, store_vars >>

NextPaths == GetUniquePaths

SpecPaths == InitPaths /\ [][NextPaths]_vars

(***************************************************************************)
(* Properties of the reconciler (checked under Spec).                      *)
(***************************************************************************)
\* the exposure numbers of a list of records, in list order
Nums(records) == [ i \in DOMAIN records |-> records[i]["exposure"] ]

\* the integers lo, lo + 1, ..., hi as a list
IntervalSeq(lo, hi) == [ i \in 1 .. (hi - lo + 1) |-> lo + i - 1 ]

MinOf(S) == CHOOSE x \in S : \A y \in S : x <= y
MaxOf(S) == CHOOSE x \in S : \A y \in S : x >= y

StrictlyAscending(ns) == \A i \in 1 .. (Len(ns) - 1) : ns[i] < ns[i + 1]

\* the first number of the timeline of a call: the first exposure number of
\* the night when the start is forced, the least on-disk number otherwise
TimelineStart(call) ==
    IF require_exposures_start_at_1
    THEN mjd_to_exposure_prefix(mjd) + 1
    ELSE MinOf(Range(Nums(call.on_disk)))

\* C1: for a non-empty on-disk list and any expected mapping, the exposure
\* numbers of the reconciled output are exactly the contiguous range from
\* the forced start of the night (or the least on-disk number when the start
\* is not forced) through the greatest on-disk number, without duplicates
\* and without gaps.
C1_GapFillingCompleteness ==
    \A i \in DOMAIN calls :
        calls[i].on_disk # << >> =>
            /\ ~ calls[i].raised
            /\ Nums(calls[i].corrected) =
                 IntervalSeq(TimelineStart(calls[i]),
                             MaxOf(Range(Nums(calls[i].on_disk))))

\* C5: with nothing on disk and a non-empty expected mapping, the output
\* runs without gaps from the least to the greatest expected key, and each
\* number in between that is not an expected key is a Missing placeholder
\* with a message saying there is no record in the operations database and
\* whether the night is before the cutoff.
C5_ExpectedOnlyNight ==
    \A i \in DOMAIN calls :
        (calls[i].on_disk = << >> /\ DOMAIN calls[i].expected # {}) =>
            LET keys == DOMAIN calls[i].expected
                out == calls[i].corrected
                msgs == calls[i].messages
            IN  /\ ~ calls[i].raised
                /\ Nums(out) = IntervalSeq(MinOf(keys), MaxOf(keys))
                /\ \A n \in (MinOf(keys) .. MaxOf(keys)) \ keys :
                     /\ \E j \in DOMAIN out :
                          /\ out[j]["exposure"] = n
                          /\ out[j]["imagetyp"] = "Missing"
                     /\ \E j \in DOMAIN msgs :
                          /\ msgs[j].exposure = n
                          /\ msgs[j].context =
                               IF mjd < sdssdb_exposure_min_mjd[observatory]
                               THEN ContextBeforeCutoff ELSE ContextShould

\* C6: two calls that get the same on-disk records in different orders and
\* the same expected mapping return the same records and the same messages.
C6_OrderInvariance ==
    \A i, j \in DOMAIN calls :
        ( /\ Range(calls[i].on_disk) = Range(calls[j].on_disk)
          /\ calls[i].expected = calls[j].expected ) =>
            /\ calls[i].raised = calls[j].raised
            /\ calls[i].corrected = calls[j].corrected
            /\ calls[i].messages = calls[j].messages

\* two calls on differently ordered lists of at least two exposures with a
\* gap between them, and the same non-empty expected mapping
C6_Witness ==
    /\ Len(calls) = 2
    /\ calls[1].on_disk # calls[2].on_disk
    /\ Len(calls[1].on_disk) >= 2
    /\ calls[1].expected = calls[2].expected
    /\ DOMAIN calls[1].expected # {}
    /\ Len(calls[2].messages) >= 2
    /\ \E j \in DOMAIN calls[2].messages :
         calls[2].messages[j].context # ContextExists

\* C7: the records a call returns are in strictly ascending order of
\* exposure number (so no number occurs twice), whatever the expected keys:
\* below the start of the timeline, between on-disk numbers, above the last.
C7_OrderedUniqueOutput ==
    \A i \in DOMAIN calls :
        ~ calls[i].raised => StrictlyAscending(Nums(calls[i].corrected))

\* a call with on-disk exposures and expected keys below the first number
\* of the timeline, between two on-disk numbers and above the last one
C7_Witness ==
    \E i \in DOMAIN calls :
        LET disk == Range(Nums(calls[i].on_disk))
            keys == DOMAIN calls[i].expected
        IN  /\ disk # {}
            /\ \E k \in keys : k < TimelineStart(calls[i])
            /\ \E k \in keys : k > MaxOf(disk)
            /\ \E k \in keys : k \notin disk /\ MinOf(disk) < k /\ k < MaxOf(disk)
            /\ Len(calls[i].corrected) >= 5

\* the rows of the timeline the detector's call selects
Selected ==
    { r \in Range(timeline) :
        /\ r["imagetyp"] = seq_args.imagetyp
        /\ (seq_args.require_path_exists => r["path_exists"]) }

\* C8: organize_exposures with nothing on disk and nothing expected returns
\* no record and no message and does not raise; the detector on a table
\* with no row of the requested image type (with require_path_exists: with
\* no such row whose file exists) returns an empty list and does not raise.
C8_EmptyInputSafety ==
    /\ \A i \in DOMAIN calls :
         (calls[i].on_disk = << >> /\ DOMAIN calls[i].expected = {}) =>
             /\ ~ calls[i].raised
             /\ calls[i].corrected = << >>
             /\ calls[i].messages = << >>
    /\ (seq_args.called /\ Selected = {}) =>
         /\ ~ seq_result.raised
         /\ seq_result.pairs = << >>

\* both calls were made: the reconciler on the empty night, and the
\* detector for arc lamps on a table that holds only other rows
C8_Witness ==
    /\ Len(calls) >= 1
    /\ calls[1].on_disk = << >>
    /\ DOMAIN calls[1].expected = {}
    /\ seq_args.called
    /\ seq_args.imagetyp = "ArcLamp"
    /\ Len(timeline) >= 2
    /\ Selected = {}
    /\ seq_result.pairs = << >>

\* C9: the message of a placeholder for exposure n says the record exists
\* in the operations database iff n was a key of expected; otherwise it
\* says there is no record because the night is before the cutoff iff
\* mjd < cutoff, and that there is no record but there should be one iff
\* mjd >= cutoff.
C9_DiagnosticTone ==
    \A i \in DOMAIN calls : \A j \in DOMAIN calls[i].messages :
        LET m == calls[i].messages[j]
            known == m.exposure \in DOMAIN calls[i].expected
            cutoff == sdssdb_exposure_min_mjd[observatory]
        IN  /\ m.mjd = mjd
            /\ m.context \in { ContextExists, ContextBeforeCutoff, ContextShould }
            /\ (m.context = ContextExists) <=> known
            /\ (m.context = ContextBeforeCutoff) <=> (~ known /\ mjd < cutoff)
            /\ (m.context = ContextShould) <=> (~ known /\ mjd >= cutoff)

\* a call on the first covered night whose messages have both a placeholder
\* with a database record and one without
C9_Witness ==
    \E i \in DOMAIN calls :
        /\ mjd = sdssdb_exposure_min_mjd[observatory]
        /\ \E j \in DOMAIN calls[i].messages :
             calls[i].messages[j].context = ContextExists
        /\ \E j \in DOMAIN calls[i].messages :
             calls[i].messages[j].context = ContextShould

\* the second call got the very list and dict objects the first call got:
\* the caller neither reordered the list nor took a fresh copy of the dict
SameArgumentObjects ==
    /\ Len(calls) = 2
    /\ calls[2].on_disk = calls[1].on_disk
    /\ calls[2].expected = calls[1].expected_after

\* C14: a call of organize_exposures leaves the expected mapping it was
\* given as it was (the on-disk list is only read through sorted()), so a
\* second call with the same argument objects returns the same records and
\* the same messages as the first.
C14_ArgumentsUnchanged ==
    /\ \A i \in DOMAIN calls : calls[i].expected_after = calls[i].expected
    /\ SameArgumentObjects =>
         /\ calls[2].corrected = calls[1].corrected
         /\ calls[2].messages = calls[1].messages

\* C15: the records one call returns all carry the same set of field names,
\* whether they come from disk, from an expected record or from neither.
C15_UniformRecordShape ==
    \A i \in DOMAIN calls : \A j, k \in DOMAIN calls[i].corrected :
        DOMAIN calls[i].corrected[j] = DOMAIN calls[i].corrected[k]

\* C21: with the start forced, for a non-empty on-disk list whose first
\* exposure number is n1 (and expected keys of the night, above the prefix
\* P), the call returns a placeholder for each number P+1 .. n1-1 and its
\* output starts at P+1, whatever the number of digits of n1.
C21_BaselineForcing ==
    \A i \in DOMAIN calls :
        ( /\ require_exposures_start_at_1
          /\ calls[i].on_disk # << >>
          /\ \A k \in DOMAIN calls[i].expected : k > mjd_to_exposure_prefix(mjd) ) =>
            LET P == mjd_to_exposure_prefix(mjd)
                n1 == MinOf(Range(Nums(calls[i].on_disk)))
                out == calls[i].corrected
            IN  /\ ~ calls[i].raised
                /\ \A n \in (P + 1) .. (n1 - 1) :
                     \E j \in DOMAIN out :
                         out[j]["exposure"] = n /\ ~ out[j]["path_exists"]
                /\ out[1]["exposure"] = P + 1

\* the records of a call's output whose number has no on-disk record
Synthesized(call) ==
    { r \in Range(call.corrected) :
        r["exposure"] \notin Range(Nums(call.on_disk)) }

\* C22 as stated: every record synthesized for a number with no on-disk
\* record has image type "Missing", path_exists false and the three
\* readout flags false, whether or not the number was a key of expected.
C22_PlaceholderIsMissing ==
    \A i \in DOMAIN calls : \A r \in Synthesized(calls[i]) :
        /\ r["imagetyp"] = "Missing"
        /\ ~ r["path_exists"]
        /\ ~ r["readout_chip_a"] /\ ~ r["readout_chip_b"] /\ ~ r["readout_chip_c"]

\* C22 as amended: every synthesized record has path_exists false and the
\* three readout flags false; its image type is "Missing" when its number
\* was not a key of expected, and the image type of the expected record
\* when it was.
C22_PlaceholderHasNoFile ==
    \A i \in DOMAIN calls : \A r \in Synthesized(calls[i]) :
        /\ ~ r["path_exists"]
        /\ ~ r["readout_chip_a"] /\ ~ r["readout_chip_b"] /\ ~ r["readout_chip_c"]
        /\ r["imagetyp"] =
             IF r["exposure"] \in DOMAIN calls[i].expected
             THEN calls[i].expected[r["exposure"]]["imagetyp"]
             ELSE "Missing"

\* a call that synthesized a record from an expected record and another
\* for a number that was not expected
C22_Witness ==
    \E i \in DOMAIN calls :
        /\ \E r \in Synthesized(calls[i]) : r["imagetyp"] = "Missing"
        /\ \E r \in Synthesized(calls[i]) :
             r["exposure"] \in DOMAIN calls[i].expected /\ r["imagetyp"] = "Object"

\* the on-disk record of number n in the list of a call
OnDiskOf(call, n) ==
    CHOOSE r \in Range(call.on_disk) : r["exposure"] = n

\* C23: for a number that is both on disk and a key of expected, the output
\* holds exactly one record, it is the on-disk record over the template
\* (path_exists as read from disk), and no message names the number.
C23_OnDiskPrecedence ==
    \A i \in DOMAIN calls :
        \A n \in Range(Nums(calls[i].on_disk)) \cap DOMAIN calls[i].expected :
            /\ ~ calls[i].raised
            /\ Cardinality({ j \in DOMAIN calls[i].corrected :
                               calls[i].corrected[j]["exposure"] = n }) = 1
            /\ \A j \in DOMAIN calls[i].corrected :
                 calls[i].corrected[j]["exposure"] = n =>
                     /\ calls[i].corrected[j] = OnDiskOf(calls[i], n) @@ missing_row_template
                     /\ calls[i].corrected[j]["path_exists"]
            /\ \A j \in DOMAIN calls[i].messages : calls[i].messages[j].exposure # n

\* a call with a number both on disk and expected, and a message for
\* another number that was expected and is not on disk
C23_Witness ==
    \E i \in DOMAIN calls :
        /\ Range(Nums(calls[i].on_disk)) \cap DOMAIN calls[i].expected # {}
        /\ \E j \in DOMAIN calls[i].messages :
             calls[i].messages[j].context = ContextExists

\* C24: the messages of a call that returns hold exactly one message for
\* each output record that did not come from disk, naming its exposure
\* number, and none for a record that came from disk.
C24_DiagnosticsExact ==
    \A i \in DOMAIN calls :
        ~ calls[i].raised =>
            /\ \A r \in Range(calls[i].corrected) :
                 Cardinality({ j \in DOMAIN calls[i].messages :
                                 calls[i].messages[j].exposure = r["exposure"] })
                   = IF r \in Synthesized(calls[i]) THEN 1 ELSE 0
            /\ \A j \in DOMAIN calls[i].messages :
                 calls[i].messages[j].exposure \in Range(Nums(calls[i].corrected))

\* a call that returned on-disk records and at least two placeholders, one
\* built from an expected record and one not
C24_Witness ==
    \E i \in DOMAIN calls :
        /\ Len(calls[i].on_disk) >= 2
        /\ Cardinality(Synthesized(calls[i])) >= 2
        /\ \E j \in DOMAIN calls[i].messages :
             calls[i].messages[j].context = ContextExists
        /\ \E j \in DOMAIN calls[i].messages :
             calls[i].messages[j].context # ContextExists

(***************************************************************************)
(* Properties of the sequence detector (checked under SpecSeq).            *)
(***************************************************************************)
SelectedNums == { r["exposure"] : r \in Selected }

RowOf(n) == CHOOSE r \in Selected : r["exposure"] = n

Pairs == seq_result.pairs

Overlap(p, q) == p[1] <= q[2] /\ q[1] <= p[2]

\* C2: with require_contiguous and require_path_exists, every number in a
\* returned range [a, b] is the number of a selected row (of the requested
\* image type, its file on disk), these rows share one grouping key, and no
\* row whose file is missing has a number in [a, b].
C2_SequenceContiguity ==
    ( /\ seq_args.called
      /\ seq_args.require_contiguous
      /\ seq_args.require_path_exists ) =>
        \A x \in DOMAIN Pairs :
            LET a == Pairs[x][1]
                b == Pairs[x][2]
            IN  /\ a <= b
                /\ \A n \in a .. b : n \in SelectedNums
                /\ \A n \in a .. b :
                     KeyOf(RowOf(n), seq_args.keys) = KeyOf(RowOf(a), seq_args.keys)
                /\ \A r \in Range(timeline) :
                     ~ r["path_exists"] => ~ (a <= r["exposure"] /\ r["exposure"] <= b)

\* a range of more than one exposure in a table that also holds a
\* placeholder and Object rows of another field
C2_Witness ==
    /\ seq_args.called
    /\ seq_args.require_contiguous
    /\ seq_args.require_path_exists
    /\ seq_args.imagetyp = "Object"
    /\ \E x \in DOMAIN Pairs : Pairs[x][1] < Pairs[x][2]
    /\ \E r \in Range(timeline) : ~ r["path_exists"]
    /\ Len(Pairs) >= 3

Adjacent(n1, n2) ==
    /\ n1 < n2
    /\ ~ \E n \in SelectedNums : n1 < n /\ n < n2

InPair(n, x) == Pairs[x][1] <= n /\ n <= Pairs[x][2]

\* C4: with require_contiguous every selected exposure lies in exactly one
\* returned range, every range starts and ends at a selected exposure, and
\* two selected exposures adjacent in number order are in the same range
\* iff their numbers differ by 1 and their grouping keys are equal; on-disk
\* Object exposures {1, 2, 4, 5} of one key give [(1, 2), (4, 5)].
C4_SequencePartition ==
    (seq_args.called /\ seq_args.require_contiguous) =>
        /\ \A n \in SelectedNums :
             Cardinality({ x \in DOMAIN Pairs : InPair(n, x) }) = 1
        /\ \A x \in DOMAIN Pairs :
             /\ Pairs[x][1] \in SelectedNums
             /\ Pairs[x][2] \in SelectedNums
        /\ \A n1, n2 \in SelectedNums :
             Adjacent(n1, n2) =>
                 ( (\E x \in DOMAIN Pairs : InPair(n1, x) /\ InPair(n2, x))
                   <=> ( /\ n2 - n1 = 1
                         /\ KeyOf(RowOf(n1), seq_args.keys)
                              = KeyOf(RowOf(n2), seq_args.keys) ) )
        /\ ( /\ SelectedNums = { 1, 2, 4, 5 }
             /\ \A n \in SelectedNums :
                  KeyOf(RowOf(n), seq_args.keys) = KeyOf(RowOf(1), seq_args.keys) )
           => Pairs = << << 1, 2 >>, << 4, 5 >> >>

\* the detector for Object sequences, with the default flags, on exposures
\* 1, 2, 4, 5 on disk and a placeholder for exposure 3
C4_Witness ==
    /\ seq_args.called
    /\ seq_args.imagetyp = "Object"
    /\ seq_args.require_contiguous
    /\ seq_args.require_path_exists
    /\ Nums(timeline) = << 1, 2, 3, 4, 5 >>
    /\ ~ timeline[3]["path_exists"]
    /\ timeline[3]["imagetyp"] = "Object"
    /\ SelectedNums = { 1, 2, 4, 5 }
    /\ Pairs = << << 1, 2 >>, << 4, 5 >> >>

\* the grouping keys of the selected rows, and the numbers carrying a key
SelectedKeys == { KeyOf(r, seq_args.keys) : r \in Selected }

NumsOfKey(k) == { n \in SelectedNums : KeyOf(RowOf(n), seq_args.keys) = k }

PlannedNear(j) ==
    { i \in DOMAIN planned :
        /\ IsApogeeHole(planned[i])
        /\ Abs(planned[i].target_ra - plugged[j].ra) < Tol
        /\ Abs(planned[i].target_dec - plugged[j].dec) < Tol }

\* the plugged rows of the APOGEE spectrograph
ApogeePlugs == { j \in DOMAIN plugged : plugged[j].spectrographId = 2 }

\* C10: if some plugged hole is within tolerance, in right ascension and in
\* declination, of more than one planned hole, the call raises and returns
\* no row, not even for the plugged holes that match one planned hole only.
C10_AmbiguousMatchRaises ==
    ( /\ match_result.called
      /\ \E j \in ApogeePlugs : Cardinality(PlannedNear(j)) > 1 ) =>
        /\ match_result.raised = "RuntimeError"
        /\ match_result.rows = << >>

\* one plugged hole near two planned holes, the other near exactly one
C10_Witness ==
    /\ match_result.called
    /\ \E j \in ApogeePlugs : Cardinality(PlannedNear(j)) > 1
    /\ \E j \in ApogeePlugs : Cardinality(PlannedNear(j)) = 1
    /\ match_result.raised = "RuntimeError"

(***************************************************************************)
(* Properties of the targets (checked under SpecFps).                      *)
(***************************************************************************)
\* C19 as stated: expected_to_be_assigned_sdss_id is true iff the target is
\* not a sky target and has a catalog id above 0 or a non-empty 2MASS
\* designation.
C19_ExpectedIffIdentified ==
    fps_expected.called =>
        ( fps_expected.value <=>
            ( /\ ~ StartsWithSky(fps_target.category)
              /\ \/ fps_target.catalogid > 0
                 \/ fps_target.twomass_designation # "" ) )

\* C19 as amended: expected_to_be_assigned_sdss_id of an FPSTarget is true
\* iff its catalog id is above 0 and its category is neither empty nor a
\* sky category; the 2MASS designation plays no part.
C19_ExpectedIffCatalogued ==
    fps_expected.called =>
        ( fps_expected.value <=>
            ( /\ fps_target.catalogid > 0
              /\ fps_target.category \notin { "", "sky_apogee", "sky_boss" } ) )

\* the property was read on a science target that has a 2MASS designation
\* and no catalog id, and is false
C19_Witness ==
    /\ fps_expected.called
    /\ fps_target.category = "science"
    /\ fps_target.catalogid <= 0
    /\ fps_target.twomass_designation # ""
    /\ ~ fps_expected.value

(***************************************************************************)
(* Properties of the Exposure model (checked under SpecExposure).          *)
(***************************************************************************)
\* a header value that is not empty and is no number
Unparsable(v) == v # "" /\ v \notin DOMAIN FloatLiterals

\* C16: building an Exposure never raises, and a float, identifier or lamp
\* field whose header value is a non-empty string that does not parse is
\* set to its sentinel: NaN for floats, -1 for identifiers and lamp states.
C16_CoercionNeverRaises ==
    exposure_model.called =>
        /\ ~ exposure_model.raised
        /\ Unparsable(headers.seeing) => exposure_model.seeing = "NaN"
        /\ (Unparsable(headers.plateid) \/ headers.plateid = "12.5")
             => exposure_model.plate_id = -1
        /\ (Unparsable(headers.configid) \/ headers.configid = "12.5")
             => exposure_model.config_id = -1
        /\ (Unparsable(headers.cartid) /\ headers.cartid # "FPS")
             => exposure_model.cart_id = -1
        /\ headers.lampqrtz \notin { "T", "F" } => exposure_model.lamp_quartz = -1

(***************************************************************************)
(* Properties of the persistence (checked under SpecIo).                   *)
(***************************************************************************)
\* C18: update called a second time with the same exposures, sequences and
\* fibers flag leaves the group as the first call left it, whatever the
\* group held before the first call.
C18_IdempotentUpdate ==
    Len(io_log) = 2 =>
        /\ io_log[2].file = io_log[1].file
        /\ io_log[2].raised = io_log[1].raised
        /\ h5file = io_log[1].file

\* two calls with exposures, sequences and fibers on a group that held
\* other exposures, other sequences and the targets of another identifier,
\* the first of which changed all three entries
C18_Witness ==
    /\ Len(io_log) = 2
    /\ io_log[1].fibers
    /\ ~ io_log[1].raised
    /\ DOMAIN io_log[1].sequences # {}
    /\ io_log[1].before.exposures.present
    /\ io_log[1].before.exposures # io_log[1].file.exposures
    /\ io_log[1].before.sequences.present
    /\ io_log[1].before.sequences # io_log[1].file.sequences
    /\ io_log[1].before.fibers.present
    /\ "999" \in DOMAIN io_log[1].file.fibers.value
    /\ Cardinality(DOMAIN io_log[1].file.fibers.value) = 3

(***************************************************************************)
(* Properties of the batch driver (checked under SpecCli).                 *)
(***************************************************************************)
\* C13: a key whose processing raises does not abort the run: the driver
\* never stops on an exception, and when the run is over every key whose
\* processing does not raise has had its result handled.
C13_FailureIsolation ==
    /\ driver.state # "aborted"
    /\ driver.state = "finished" =>
         driver.completed = Range(batch.keys) \ batch.failing

(***************************************************************************)
(* Properties of the target attachment (checked under SpecFibers).         *)
(***************************************************************************)
\* the targets of the returned fiber maps of one kind
TargetsOf(kind) ==
    LET maps == almanac.fiber_maps[kind]
    IN  UNION { Range(maps[ref]) : ref \in DOMAIN maps }

\* the night has an Object exposure on disk, hence targets
HasTargets == \E i \in DOMAIN on_disk : on_disk[i]["imagetyp"] = "Object"

\* C11: with fibers, when the database is unavailable or the cross-match
\* is not requested, the call on a night with Object exposures on disk does
\* not raise and every target of every returned fiber map has sdss_id -1.
C11_ResolutionFallback ==
    ( /\ almanac.called
      /\ request.fibers
      /\ ~ backend.available \/ ~ request.xmatch
      /\ HasTargets ) =>
        /\ ~ almanac.raised
        /\ \A t \in TargetsOf("fps") \cup TargetsOf("plates") : t.sdss_id = -1

\* at most one query per kind of identifier
OneQueryPerKind ==
    \A x, y \in DOMAIN almanac.queries :
        x # y => almanac.queries[x].kind # almanac.queries[y].kind

\* C12: with fibers, the cross-match requested and the database available,
\* the call does not raise, every FPS target has the sdss_id the database
\* holds for its catalogid and every plate target the sdss_id it holds for
\* its designation, or -1 when it holds none, and no kind of identifier is
\* queried twice.
C12_ResolutionOutcome ==
    ( /\ almanac.called
      /\ request.fibers
      /\ request.xmatch
      /\ backend.available ) =>
        /\ ~ almanac.raised
        /\ \A t \in TargetsOf("fps") :
             t.sdss_id = IF t.catalogid \in DOMAIN backend.catalog
                         THEN backend.catalog[t.catalogid] ELSE -1
        /\ \A t \in TargetsOf("plates") :
             t.sdss_id = IF t.target_id \in DOMAIN backend.twomass
                         THEN backend.twomass[t.target_id] ELSE -1
        /\ OneQueryPerKind

\* a cross-match that resolved one FPS target and left another, with a
\* catalogid the database does not hold, at -1
C12_Witness ==
    /\ almanac.called
    /\ request.fibers
    /\ request.xmatch
    /\ backend.available
    /\ ~ almanac.raised
    /\ \E t \in TargetsOf("fps") : t.sdss_id = 100 + t.catalogid
    /\ \E t \in TargetsOf("fps") : t.catalogid > 0 /\ t.sdss_id = -1
    /\ Len(almanac.queries) = 1

\* the identifier whose target list a science sequence uses: that of its
\* first exposure
SequenceRef(pair) ==
    LET row == CHOOSE r \in Range(almanac.exposures) : r["exposure"] = pair[1]
    IN  IF row["configid"] \notin { "", "-1", "-999" } THEN row["configid"]
        ELSE row["plateid"]

AllFetched == almanac.fetched.fps @@ almanac.fetched.plates

C28_SequenceIndexPairs ==
    (seq_args.called /\ ~ seq_result.raised) =>
        /\ Len(seq_result.indices) = Len(seq_result.pairs)
        /\ \A k \in DOMAIN seq_result.indices :
             LET s == seq_result.indices[k][1]
                 e == seq_result.indices[k][2]
             IN  /\ 0 <= s /\ s < e /\ e <= Len(timeline)
                 /\ \E x \in DOMAIN seq_result.pairs :
                      /\ timeline[s + 1]["exposure"] = seq_result.pairs[x][1]
                      /\ timeline[e]["exposure"] = seq_result.pairs[x][2]
                 /\ \A i \in (s + 1) .. e :
                      /\ timeline[i] \in Selected
                      /\ KeyOf(timeline[i], seq_args.keys)
                           = KeyOf(timeline[s + 1], seq_args.keys)


(***************************************************************************)
\* the plugged rows with exactly one planned hole within tolerance, in
\* table order
UniquelyMatched ==
    SortedKeys({ j \in ApogeePlugs : Cardinality(PlannedNear(j)) = 1 })

\* C26: when the call returns, the result has one row per plugged hole with
\* exactly one planned hole within tolerance in right ascension and in
\* declination, the row pairs the plugged hole with that planned hole, and
\* the plugged holes with no planned hole within tolerance are left out.
C26_SpatialMatchResult ==
    (match_result.called /\ match_result.raised = "") =>
        /\ Len(match_result.rows) = Len(UniquelyMatched)
        /\ \A k \in DOMAIN match_result.rows :
             LET j == UniquelyMatched[k]
             IN  /\ match_result.rows[k].plugged = plugged[j]
                 /\ \E i \in PlannedNear(j) :
                      match_result.rows[k].planned = planned[i]

(***************************************************************************)
(* Properties of the raw file listing (checked under SpecPaths).           *)
(***************************************************************************)
\* C25: the result has exactly one entry per distinct (observatory, night,
\* exposure) of the input; the entry's flag of chip a, b, c is true iff
\* the input holds that chip's file of the exposure; and the entry's path
\* is one of the input paths, the one of the first present chip in the
\* order a, b, c.
C25_MultiChipCollapse ==
    unique_paths.called =>
        LET out == unique_paths.entries
            files == Range(paths)
        IN  /\ { PathKey(out[i].path) : i \in DOMAIN out } = { PathKey(f) : f \in files }
            /\ \A i, j \in DOMAIN out :
                 PathKey(out[i].path) = PathKey(out[j].path) => i = j
            /\ \A i \in DOMAIN out : \A c \in 1 .. 3 :
                 out[i].chips[c] <=>
                     \E f \in files :
                         PathKey(f) = PathKey(out[i].path) /\ f.chip = ChipAt(c)
            /\ \A i \in DOMAIN out :
                 /\ out[i].path \in files
                 /\ \A f \in files :
                      PathKey(f) = PathKey(out[i].path) =>
                          ChipIndex(out[i].path.chip) <= ChipIndex(f.chip)

(***************************************************************************)
(* Properties of the persistence, continued (checked under SpecIo).        *)
(***************************************************************************)
\* the fibers entries the arguments of a call give rise to: one per
\* reference identifier of an exposure with targets, none without fibers
FibersOfCall(call) ==
    IF call.fibers THEN WriteFibers(<< >>, {}, call.exposures, 1) ELSE << >>

\* the entries stored under a possibly absent group
StoredUnder(entry) == IF entry.present THEN entry.value ELSE << >>

\* C30: after a call of update that returns, the stored exposures, sequences
\* and fiber groups of the key are those of the arguments of that call and
\* nothing an earlier update wrote is left: no sequences when the call
\* passed none, no fiber group of an identifier the exposures do not use.
C30_LastWriteWins ==
    \A i \in DOMAIN io_log :
        ~ io_log[i].raised =>
            /\ io_log[i].file.exposures = Present(RowsOf(io_log[i].exposures))
            /\ StoredUnder(io_log[i].file.sequences) = io_log[i].sequences
            /\ StoredUnder(io_log[i].file.fibers) = FibersOfCall(io_log[i])

(***************************************************************************)
(* Properties of the worker pool (checked under SpecCli).                  *)
(***************************************************************************)
\* the number of times a key occurs in a log
Occurrences(log, key) == Cardinality({ i \in DOMAIN log : log[i] = key })

\* C29: with a pool (processes >= 1) and no task that raises, the driver
\* does not stop on an exception, and when the loop has ended every key of
\* the run was submitted to the pool exactly once and had its result
\* handled exactly once, whatever the order in which the tasks completed.
C29_PoolScheduling ==
    (batch.processes >= 1 /\ batch.failing = {}) =>
        /\ driver.state # "aborted"
        /\ driver.state = "finished" =>
             \A key \in Range(batch.keys) :
                 /\ Occurrences(driver.submitted, key) = 1
                 /\ Occurrences(driver.handled, key) = 1

(***************************************************************************)
(* Properties of the output file of a run (checked under SpecStore).       *)
(***************************************************************************)
\* the group of a key after its update on the file the run started with
GroupOfKey(key) ==
    update(io_log[1].before[key], io_tasks[key].exposures,
           io_tasks[key].sequences, io_tasks[key].fibers).file

\* C27: an update for one key changes the group of that key only and
\* leaves the exposures, sequences and fibers of every other key as they
\* were, so once every key was updated the file holds, for each key, what
\* its update wrote, whatever the order in which the updates were made.
C27_IndependentKeys ==
    /\ \A i \in DOMAIN io_log : \A k \in StoreKeys \ { io_log[i].key } :
         io_log[i].file[k] = io_log[i].before[k]
    /\ Len(io_log) = Cardinality(StoreKeys) =>
         h5root = [ k \in StoreKeys |-> GroupOfKey(k) ]

\* every key was updated, the key of the later night first, on a file that
\* held groups of an earlier run, with different arguments for the keys
C27_Witness ==
    /\ Len(io_log) = Cardinality(StoreKeys)
    /\ io_log[1].key = << "apo", 59559 >>
    /\ io_log[3].key = << "apo", 59558 >>
    /\ io_log[1].before[<< "apo", 59558 >>] # NoGroup
    /\ io_tasks[<< "apo", 59558 >>] # io_tasks[<< "apo", 59559 >>]
    /\ h5root[<< "apo", 59558 >>] # h5root[<< "apo", 59559 >>]

====
